---- MODULE Spec2Model ----
(***************************************************************************)
(* Model of the mesh-kernel core: exact plane/point/line algebra, the      *)
(* exact Seidel feasibility solver and the plane-cut kernel constructor.   *)
(* Integers are unbounded mathematical integers here; the source selects   *)
(* its fixed widths so that no product overflows for inputs within the     *)
(* declared coordinate bounds (widths_suffice).  The meshes and planes of  *)
(* the model are far inside the bounds; only the boxes given to the K = 3  *)
(* bounding volume on its own reach them.                                  *)
(***************************************************************************)
EXTENDS Integers, Sequences, FiniteSets, TLC

(***************************************************************************)
(* Scalars                                                                 *)
(***************************************************************************)
Sign(x) == IF x > 0 THEN 1 ELSE IF x < 0 THEN -1 ELSE 0

Abs(x) == IF x < 0 THEN -x ELSE x

Min2(x, y) == IF x < y THEN x ELSE y

Max2(x, y) == IF x > y THEN x ELSE y

RECURSIVE Gcd(_, _)
Gcd(x, y) == IF y = 0 THEN x ELSE Gcd(y, x % y)

(***************************************************************************)
(* Planes a*x + b*y + c*z + d = 0, homogeneous points (x, y, z, w) and     *)
(* lines (cross product of two plane normals plus the three d cross terms) *)
(***************************************************************************)
Plane(a, b, c, d) == [a |-> a, b |-> b, c |-> c, d |-> d]

Point4(x, y, z, w) == [x |-> x, y |-> y, z |-> z, w |-> w]

ZeroPlane == Plane(0, 0, 0, 0)

ZeroPoint == Point4(0, 0, 0, 0)

ZeroLine == [ab_ba |-> 0, bc_cb |-> 0, ca_ac |-> 0, ad_da |-> 0, bd_db |-> 0, cd_dc |-> 0]

\* point4(tg::ipos3): an integer position promoted with w = 1
PointOfPos(p) == Point4(p[1], p[2], p[3], 1)

plane_is_valid(p) == p.a # 0 \/ p.b # 0 \/ p.c # 0

line_is_valid(l) == l.ab_ba # 0 \/ l.bc_cb # 0 \/ l.ca_ac # 0

point_is_valid(pt) == pt.w # 0

Cross(u, v) == <<u[2] * v[3] - u[3] * v[2], u[3] * v[1] - u[1] * v[3], u[1] * v[2] - u[2] * v[1]>>

Sub3(p, q) == <<p[1] - q[1], p[2] - q[2], p[3] - q[3]>>

\* plane::from_pos_normal
from_pos_normal(p, n) == Plane(n[1], n[2], n[3], (-n[1]) * p[1] + (-n[2]) * p[2] + (-n[3]) * p[3])

\* plane::from_points_no_gcd
from_points_no_gcd(p0, p1, p2) == from_pos_normal(p0, Cross(Sub3(p1, p0), Sub3(p2, p0)))

\* ipg::intersect(plane, plane): the line of two planes
intersect_pp(pl0, pl1) ==
    [ bc_cb |-> pl0.b * pl1.c - pl0.c * pl1.b,
      ca_ac |-> pl0.c * pl1.a - pl0.a * pl1.c,
      ab_ba |-> pl0.a * pl1.b - pl0.b * pl1.a,
      ad_da |-> pl0.a * pl1.d - pl0.d * pl1.a,
      bd_db |-> pl0.b * pl1.d - pl0.d * pl1.b,
      cd_dc |-> pl0.c * pl1.d - pl0.d * pl1.c ]

\* ipg::intersect(line, plane): the point of a line and a plane
intersect_lp(l, p) ==
    [ x |-> p.c * l.bd_db - p.b * l.cd_dc - p.d * l.bc_cb,
      y |-> p.a * l.cd_dc - p.c * l.ad_da - p.d * l.ca_ac,
      z |-> p.b * l.ad_da - p.a * l.bd_db - p.d * l.ab_ba,
      w |-> p.a * l.bc_cb + p.b * l.ca_ac + p.c * l.ab_ba ]

\* a variant of intersect(plane, plane, plane) that takes the 2x2 determinants
\* of p and r in place of those of p and q for the y numerator (sensitivity
\* analysis)
intersect_ppp_mixed(p, q, r) ==
    LET det_2x2_ab == p.a * q.b - p.b * q.a
        det_2x2_ac == p.a * q.c - p.c * q.a
        det_2x2_ad == p.a * q.d - p.d * q.a
        det_2x2_bc == p.b * q.c - p.c * q.b
        det_2x2_bd == p.b * q.d - p.d * q.b
        det_2x2_cd == p.c * q.d - p.d * q.c
    IN  [ x |-> det_2x2_bd * r.c - det_2x2_cd * r.b - det_2x2_bc * r.d,
          y |-> (p.a * r.c - p.c * r.a) * q.d - det_2x2_ad * r.c + det_2x2_cd * r.a,
          z |-> det_2x2_ad * r.b - det_2x2_ab * r.d - det_2x2_bd * r.a,
          w |-> det_2x2_ab * r.c - det_2x2_ac * r.b + det_2x2_bc * r.a ]

\* ipg::intersect(plane, plane, plane): the point of three planes
intersect_ppp(p, q, r) ==
    LET det_2x2_ab == p.a * q.b - p.b * q.a
        det_2x2_ac == p.a * q.c - p.c * q.a
        det_2x2_ad == p.a * q.d - p.d * q.a
        det_2x2_bc == p.b * q.c - p.c * q.b
        det_2x2_bd == p.b * q.d - p.d * q.b
        det_2x2_cd == p.c * q.d - p.d * q.c
    IN  [ x |-> det_2x2_bd * r.c - det_2x2_cd * r.b - det_2x2_bc * r.d,
          y |-> det_2x2_ac * r.d - det_2x2_ad * r.c + det_2x2_cd * r.a,
          z |-> det_2x2_ad * r.b - det_2x2_ab * r.d - det_2x2_bd * r.a,
          w |-> det_2x2_ab * r.c - det_2x2_ac * r.b + det_2x2_bc * r.a ]

\* ipg::classify(point4, plane)
classify(pt, s) == Sign(pt.x * s.a + pt.y * s.b + pt.z * s.c + pt.w * s.d) * Sign(pt.w)

\* ipg::signed_distance(plane, pos) and ipg::classify(pos, plane)
signed_distance(pl, pt) == pl.a * pt[1] + pl.b * pt[2] + pl.c * pt[3] + pl.d

classify_pos(pt, p) == Sign(signed_distance(p, pt))

\* ipg::are_parallel(plane, plane)
are_parallel_pp(p0, p1) ==
    /\ p0.b * p1.c - p0.c * p1.b = 0
    /\ p0.c * p1.a - p0.a * p1.c = 0
    /\ p0.a * p1.b - p0.b * p1.a = 0

\* ipg::are_parallel(plane, line)
are_parallel_pl(plane, line) ==
    plane.a * line.bc_cb + plane.b * line.ca_ac + plane.c * line.ab_ba = 0

\* ipg::any_point(plane)
any_point_plane(plane) ==
    IF plane.a # 0 THEN Point4(-plane.d, 0, 0, plane.a)
    ELSE IF plane.b # 0 THEN Point4(0, -plane.d, 0, plane.b)
    ELSE Point4(0, 0, -plane.d, plane.c)

\* ipg::any_point(line): three independent ifs, the last one that applies wins;
\* a line with no direction leaves the point default-constructed
any_point_line(line) ==
    IF line.ab_ba # 0 THEN Point4(line.bd_db, -line.ad_da, 0, line.ab_ba)
    ELSE IF line.ca_ac # 0 THEN Point4(-line.cd_dc, 0, line.ad_da, line.ca_ac)
    ELSE IF line.bc_cb # 0 THEN Point4(0, line.cd_dc, -line.bd_db, line.bc_cb)
    ELSE ZeroPoint

\* a variant of orientation that ignores the z component (sensitivity analysis)
orientation_without_z(line, plane) ==
    Sign(line.bc_cb * plane.a + line.ca_ac * plane.b)

\* orientation(line, plane) of lp-feasibility
orientation(line, plane) ==
    Sign(line.bc_cb * plane.a + line.ca_ac * plane.b + line.ab_ba * plane.c)

(***************************************************************************)
(* ExactSeidelSolverPoint: the solution structure                          *)
(* Plane indices are the source's 0-based indices into m_planes, -1 when   *)
(* unused; m_planes itself is a 1-based sequence, m_planes[pi + 1].        *)
(***************************************************************************)
EmptySolution ==
    [plane_idx_0 |-> -1, plane_idx_1 |-> -1, plane_idx_2 |-> -1,
     plane |-> ZeroPlane, line |-> ZeroLine, position |-> ZeroPoint]

\* solution::reset: only the indices are reset, the geometry is kept
solution_reset(sol) == [sol EXCEPT !.plane_idx_0 = -1, !.plane_idx_1 = -1, !.plane_idx_2 = -1]

\* solution::append
solution_append(sol, index, new_plane) ==
    IF sol.plane_idx_0 < 0
      THEN [sol EXCEPT !.plane_idx_0 = index, !.plane = new_plane]
    ELSE IF sol.plane_idx_1 < 0
      THEN [sol EXCEPT !.plane_idx_1 = index, !.line = intersect_pp(sol.plane, new_plane)]
    ELSE [sol EXCEPT !.plane_idx_2 = index, !.position = intersect_lp(sol.line, new_plane)]

is_space(sol) == sol.plane_idx_0 < 0

is_point(sol) == sol.plane_idx_2 >= 0

is_line(sol) == sol.plane_idx_2 = -1 /\ sol.plane_idx_1 >= 0

is_plane(sol) == sol.plane_idx_0 >= 0 /\ sol.plane_idx_1 < 0

\* solution::any_point (unreachable for the whole space)
solution_any_point(sol) ==
    IF is_point(sol) THEN sol.position
    ELSE IF is_line(sol) THEN any_point_line(sol.line)
    ELSE any_point_plane(sol.plane)

(***************************************************************************)
(* solve_1D_problem: the closed interval along the line of the two fixed   *)
(* planes, over the planes m_planes[0 .. n-1]                              *)
(***************************************************************************)
EmptyInterval ==
    [left_idx |-> -1, right_idx |-> -1, left_point |-> ZeroPoint, right_point |-> ZeroPoint,
     left_orientation |-> 0, right_orientation |-> 0]

interval_is_closed(iv) == iv.left_idx >= 0 /\ iv.right_idx >= 0

interval_is_one_sided(iv) == iv.left_idx >= 0 /\ iv.right_idx < 0

\* one iteration of the 1D loop: [infeasible, interval]
Step1D(line, plane, pi, iv) ==
    IF interval_is_closed(iv) THEN
        LET c_left == classify(iv.left_point, plane)
            c_right == classify(iv.right_point, plane)
        IN  IF c_left = 1
              THEN IF c_right = 1
                     THEN [infeasible |-> TRUE, interval |-> iv]
                     ELSE [infeasible |-> FALSE,
                           interval |-> [iv EXCEPT !.left_idx = pi,
                                                   !.left_point = intersect_lp(line, plane)]]
              ELSE IF c_right = 1
                     THEN [infeasible |-> FALSE,
                           interval |-> [iv EXCEPT !.right_idx = pi,
                                                   !.right_point = intersect_lp(line, plane)]]
                     ELSE [infeasible |-> FALSE, interval |-> iv]
    ELSE IF interval_is_one_sided(iv) THEN
        LET c == classify(iv.left_point, plane)
            o == orientation(line, plane)
        IN  IF o = 0
              THEN [infeasible |-> c > 0, interval |-> iv]
            ELSE IF c = 1
              THEN IF o = iv.left_orientation
                     THEN [infeasible |-> FALSE,
                           interval |-> [iv EXCEPT !.left_idx = pi, !.left_orientation = o,
                                                   !.left_point = intersect_lp(line, plane)]]
                     ELSE [infeasible |-> TRUE, interval |-> iv]
            ELSE IF o # iv.left_orientation
              THEN [infeasible |-> FALSE,
                    interval |-> [iv EXCEPT !.right_idx = pi, !.right_orientation = o,
                                            !.right_point = intersect_lp(line, plane)]]
            ELSE [infeasible |-> FALSE, interval |-> iv]
    ELSE
        LET o == orientation(line, plane)
        IN  IF o = 0
              THEN [infeasible |-> classify(any_point_line(line), plane) = 1, interval |-> iv]
              ELSE [infeasible |-> FALSE,
                    interval |-> [iv EXCEPT !.left_idx = pi, !.left_orientation = o,
                                            !.left_point = intersect_lp(line, plane)]]

RECURSIVE Loop1D(_, _, _, _, _)
Loop1D(mp, n, line, pi, iv) ==
    IF pi >= n THEN [infeasible |-> FALSE, interval |-> iv]
    ELSE LET r == Step1D(line, mp[pi + 1], pi, iv)
         IN  IF r.infeasible THEN r ELSE Loop1D(mp, n, line, pi + 1, r.interval)

\* solve_1D_problem(planes = m_planes.first(n), fixed_plane_3D_idx, fixed_plane_2D_idx)
solve_1D_problem(mp, n, sol, f3, f2) ==
    LET s0 == solution_append(solution_append(solution_reset(sol), f3, mp[f3 + 1]), f2, mp[f2 + 1])
        r == Loop1D(mp, n, s0.line, 0, EmptyInterval)
    IN  IF r.infeasible THEN [state |-> "infeasible", solution |-> s0]
        ELSE [state |-> "has_solution",
              solution |-> IF r.interval.left_idx >= 0
                             THEN solution_append(s0, r.interval.left_idx, mp[r.interval.left_idx + 1])
                             ELSE s0]

(***************************************************************************)
(* solve_2D_problem: inside the fixed plane m_planes[f3], over the planes  *)
(* m_planes[0 .. n-1].  The stop flag is read only when (pi+1) % 1000 = 0. *)
(***************************************************************************)
StopCheckPeriod2D == 1000

\* the test of the current solution against the next plane, shared by the 3D and
\* the 2D loop: "satisfied" (continue), "append" (append and continue) or "violated"
SolutionTest(sol, plane) ==
    IF is_point(sol) THEN
        IF classify(sol.position, plane) <= 0 THEN "satisfied" ELSE "violated"
    ELSE IF is_line(sol) THEN
        IF are_parallel_pl(plane, sol.line)
          THEN IF classify(any_point_line(sol.line), plane) <= 0 THEN "satisfied" ELSE "violated"
          ELSE "append"
    ELSE IF is_plane(sol) THEN
        IF are_parallel_pp(sol.plane, plane)
          THEN IF classify(any_point_plane(sol.plane), plane) <= 0 THEN "satisfied" ELSE "violated"
          ELSE "append"
    ELSE "append"

\* one iteration of the loop of solve_2D_problem for index pi; "continue" is the
\* end of the iteration, "infeasible" a return from inside it
Step2D(mp, f3, pi, sol, stop) ==
    IF (pi + 1) % StopCheckPeriod2D = 0 /\ stop THEN [state |-> "infeasible", solution |-> sol]
    ELSE
        LET plane == mp[pi + 1]
            t == SolutionTest(sol, plane)
        IN  IF t = "satisfied" THEN [state |-> "continue", solution |-> sol]
            ELSE IF t = "append"
              THEN [state |-> "continue", solution |-> solution_append(sol, pi, plane)]
            ELSE IF are_parallel_pp(plane, mp[f3 + 1])
                    /\ classify(any_point_plane(mp[f3 + 1]), plane) = 1
              THEN [state |-> "infeasible", solution |-> sol]
            ELSE LET r == solve_1D_problem(mp, pi, sol, f3, pi)
                 IN  IF r.state = "infeasible" THEN r
                     ELSE [state |-> "continue", solution |-> r.solution]

RECURSIVE Loop2D(_, _, _, _, _, _)
\* the loop after the iteration pi gave r
Loop2D_next(mp, n, f3, pi, r, stop) ==
    IF r.state = "infeasible" THEN r ELSE Loop2D(mp, n, f3, pi + 1, r.solution, stop)

Loop2D(mp, n, f3, pi, sol, stop) ==
    IF pi >= n THEN [state |-> "has_solution", solution |-> sol]
    ELSE Loop2D_next(mp, n, f3, pi, Step2D(mp, f3, pi, sol, stop), stop)

\* the solution structure at the end of every iteration of the loop of
\* solve_2D_problem, in the order of the iterations
RECURSIVE Trace2D(_, _, _, _, _, _, _)
Trace2D_next(mp, n, f3, pi, r, stop, acc) ==
    IF r.state = "infeasible" THEN acc
    ELSE Trace2D(mp, n, f3, pi + 1, r.solution, stop, Append(acc, r.solution))

Trace2D(mp, n, f3, pi, sol, stop, acc) ==
    IF pi >= n \/ Len(acc) > n THEN acc
    ELSE Trace2D_next(mp, n, f3, pi, Step2D(mp, f3, pi, sol, stop), stop, acc)

\* solve_2D_problem(planes = m_planes.first(n), fixed_plane_3D_idx)
solve_2D_problem(mp, n, sol, f3, stop) ==
    Loop2D(mp, n, f3, 0, solution_append(solution_reset(sol), f3, mp[f3 + 1]), stop)

(***************************************************************************)
(* solve_3D_problem: one iteration of the plane loop for index pi, after   *)
(* the stop flag was read as clear.  "continue" is the loop's continue.    *)
(***************************************************************************)
Step3D(mp, pi, sol, stop) ==
    LET plane == mp[pi + 1]
        t == SolutionTest(sol, plane)
    IN  IF t = "satisfied" THEN [state |-> "continue", solution |-> sol]
        ELSE IF t = "append" THEN [state |-> "continue", solution |-> solution_append(sol, pi, plane)]
        ELSE LET r == solve_2D_problem(mp, pi, sol, pi, stop)
             IN  IF r.state = "infeasible" THEN r
                 ELSE [state |-> "continue", solution |-> r.solution]

\* the iterations of the 2D loop made by the iteration pi of the 3D loop: none
\* when the solution is kept or appended to
Sub2D(mp, pi, sol, stop) ==
    IF SolutionTest(sol, mp[pi + 1]) = "violated"
      THEN [ran |-> TRUE, fixed |-> pi,
            trace |-> Trace2D(mp, pi, pi, 0, solution_append(solution_reset(sol), pi, mp[pi + 1]), stop, <<>>)]
      ELSE [ran |-> FALSE, fixed |-> -1, trace |-> <<>>]

\* solve() run to completion with the stop flag never set
RECURSIVE Loop3D(_, _, _)
Loop3D(mp, pi, sol) ==
    IF pi >= Len(mp) THEN [state |-> "has_solution", solution |-> sol]
    ELSE LET r == Step3D(mp, pi, sol, FALSE)
         IN  IF r.state = "infeasible" THEN r ELSE Loop3D(mp, pi + 1, r.solution)

solve_complete(mp) == Loop3D(mp, 0, solution_reset(EmptySolution))

\* set_planes: m_planes[i] = planes[m_mapping[i]]; perm is m_mapping as a 1-based
\* sequence of 1-based positions
shuffled(planes, perm) == [i \in 1..Len(planes) |-> planes[perm[i]]]

\* a variant of solution_planes that skips m_mapping (sensitivity analysis)
solution_planes_unmapped(sol, perm) ==
    << sol.plane_idx_0, sol.plane_idx_1, sol.plane_idx_2 >>

\* solution_planes(): the supporting planes in the caller's (0-based) indexing
solution_planes(sol, perm) ==
    << IF sol.plane_idx_0 >= 0 THEN perm[sol.plane_idx_0 + 1] - 1 ELSE -1,
       IF sol.plane_idx_1 >= 0 THEN perm[sol.plane_idx_1 + 1] - 1 ELSE -1,
       IF sol.plane_idx_2 >= 0 THEN perm[sol.plane_idx_2 + 1] - 1 ELSE -1 >>

(***************************************************************************)
(* State                                                                   *)
(*   input   the argument of the call under analysis: a mesh with options  *)
(*           for compute_kernel, a plane list for the solver alone, a box  *)
(*           for the bounding volume alone, three planes for intersect     *)
(*   kpc     the fields of the KernelPlaneCut object and the position of   *)
(*           the constructing thread                                      *)
(*   cand    the candidate polyhedron m_mesh with its attributes           *)
(*   bv      the bounding volume (m_3dop / m_8dop / m_9dop / m_12dop)      *)
(*   solver  the fields of the ExactSeidelSolverPoint object               *)
(*   worker  the position of the thread running set_planes and solve, and  *)
(*           the value it returned (the shared state of the future)        *)
(*   hist    history of the calls made: stop(), future get, readiness      *)
(*           probe, the latest cut, the latest 2D sub-problem              *)
(***************************************************************************)
VARIABLES input, kpc, cand, bv, solver, worker, hist

vars == <<input, kpc, cand, bv, solver, worker, hist>>

(***************************************************************************)
(* Bounds of the model                                                     *)
(***************************************************************************)
\* longest plane list given to the solver when it is analysed on its own
MaxSolverPlanes == 4

\* plane lists up to this length are shuffled into every order by set_planes;
\* longer ones into the identity, the reversal and the rotations by one
MaxFullShuffle == 4

Perms(n) == {f \in [1..n -> 1..n] : \A i, j \in 1..n : f[i] = f[j] => i = j}

Shuffles(n) ==
    IF n <= MaxFullShuffle THEN Perms(n)
    ELSE { [i \in 1..n |-> i], [i \in 1..n |-> n + 1 - i],
           [i \in 1..n |-> (i % n) + 1], [i \in 1..n |-> ((i + n - 2) % n) + 1] }

(***************************************************************************)
(* The Seidel worker: set_planes, then solve, one action per iteration of  *)
(* the 3D plane loop (the stop flag is read at the top of each iteration)  *)
(***************************************************************************)
FreshSolver(stop) ==
    [m_planes |-> <<>>, m_mapping |-> <<>>, m_solution |-> EmptySolution, m_should_stop |-> stop]

\* call is the number of the compute_kernel call that dispatched the worker
IdleWorker == [pc |-> "idle", pi |-> 0, ret |-> "none", cancelled |-> FALSE, call |-> 0]

\* set_planes(planes): reset the solution, shuffle, copy
set_planes(planes) ==
    /\ worker.pc = "set_planes"
    /\ \E perm \in Shuffles(Len(planes)) :
         solver' = [solver EXCEPT !.m_solution = EmptySolution,
                                  !.m_mapping = perm,
                                  !.m_planes = shuffled(planes, perm)]
    /\ worker' = [worker EXCEPT !.pc = "solve"]
    /\ UNCHANGED <<input, kpc, cand, bv, hist>>

\* solve(): clear the stop flag, enter solve_3D_problem (m_solution.reset())
solve_enter ==
    /\ worker.pc = "solve"
    /\ solver' = [solver EXCEPT !.m_should_stop = FALSE,
                                !.m_solution = solution_reset(solver.m_solution)]
    /\ worker' = [worker EXCEPT !.pc = "loop", !.pi = 0]
    /\ UNCHANGED <<input, kpc, cand, bv, hist>>

\* one iteration of the loop of solve_3D_problem, or the loop's exit
solve_3D_iteration ==
    /\ worker.pc = "loop"
    /\ IF worker.pi >= Len(solver.m_planes)
         THEN /\ worker' = [worker EXCEPT !.pc = "done", !.ret = "has_solution"]
              /\ UNCHANGED solver
       ELSE IF solver.m_should_stop
         THEN /\ worker' = [worker EXCEPT !.pc = "done", !.ret = "infeasible", !.cancelled = TRUE]
              /\ UNCHANGED solver
       ELSE LET r == Step3D(solver.m_planes, worker.pi, solver.m_solution, solver.m_should_stop)
            IN  /\ solver' = [solver EXCEPT !.m_solution = r.solution]
                /\ worker' = IF r.state = "infeasible"
                               THEN [worker EXCEPT !.pc = "done", !.ret = "infeasible"]
                               ELSE [worker EXCEPT !.pi = worker.pi + 1]
    /\ hist' = [hist EXCEPT !.sub2d =
                    IF worker.pi >= Len(solver.m_planes) \/ solver.m_should_stop
                      THEN hist.sub2d
                      ELSE Sub2D(solver.m_planes, worker.pi, solver.m_solution, solver.m_should_stop)]
    /\ UNCHANGED <<input, kpc, cand, bv>>

\* ExactSeidelSolverPoint::stop(), called from the thread that owns the solver
\* while the solver is analysed on its own
stop ==
    /\ input.kind = "planes"
    /\ hist.stop_calls = 0
    /\ solver' = [solver EXCEPT !.m_should_stop = TRUE]
    /\ hist' = [hist EXCEPT !.stop_calls = 1]
    /\ UNCHANGED <<input, kpc, cand, bv, worker>>

(***************************************************************************)
(* The solver on its own: plane lists drawn from a menu of planes          *)
(***************************************************************************)
PlaneMenu ==
    << Plane(1, 0, 0, 0),      \* x <= 0
       Plane(-1, 0, 0, 0),     \* x >= 0
       Plane(-1, 0, 0, 1),     \* x >= 1
       Plane(0, 1, 0, 0),      \* y <= 0
       Plane(0, -1, 0, 1),     \* y >= 1
       Plane(0, 0, -1, 0),     \* z >= 0
       Plane(1, 1, 1, -1) >>   \* x + y + z <= 1

\* the lists of at most MaxSolverPlanes menu planes, in menu order (set_planes
\* brings them into every order)
PlaneLists ==
    UNION { { [i \in 1..n |-> PlaneMenu[s[i]]] :
                s \in {t \in [1..n -> 1..Len(PlaneMenu)] : \A i \in 1..(n-1) : t[i] <= t[i+1]} } :
            n \in 0..MaxSolverPlanes }

\* the record of the latest cutting plane processed, before any was
NoLast ==
    [res |-> "none", zero |-> {}, pos |-> {}, on_face |-> FALSE, same |-> TRUE,
     identical |-> TRUE, proper_cut |-> FALSE, c0v |-> <<>>, c0 |-> 0, exit |-> "none",
     closed |-> TRUE, no_crossing |-> FALSE, v0_class |-> -1, bv_same |-> TRUE,
     removed |-> {}, pos_left |-> {}, c1_assert |-> FALSE,
     zero_left |-> {}, c0_joined |-> TRUE, closed_left |-> TRUE, fill_fault |-> FALSE,
     filled |-> FALSE]

NoHist ==
    [stop_calls |-> 0, gets |-> 0, blocking_gets |-> 0, get_after_stop |-> FALSE,
     list_built |-> FALSE, dispatched |-> FALSE, cube_built |-> FALSE,
     loop_entered |-> FALSE, iterations |-> 0, culled |-> 0, cuts |-> 0,
     last |-> NoLast, calls |-> 0, sub2d |-> [ran |-> FALSE, fixed |-> -1, trace |-> <<>>]]

IdleKpc == [pc |-> "none"]

NoCand == [nv |-> 0]

NoBv == [k |-> 0]

InitSeidel ==
    /\ input \in {[kind |-> "planes", planes |-> l] : l \in PlaneLists}
    /\ kpc = IdleKpc
    /\ cand = NoCand
    /\ bv = NoBv
    /\ solver \in {FreshSolver(b) : b \in BOOLEAN}
    /\ worker = [IdleWorker EXCEPT !.pc = "set_planes"]
    /\ hist = NoHist

NextSeidel ==
    \/ set_planes(input.planes)
    \/ solve_enter
    \/ solve_3D_iteration
    \/ stop

SpecSeidel == InitSeidel /\ [][NextSeidel]_vars

(***************************************************************************)
(* Reference semantics of a halfspace system, independent of the solver:   *)
(* a non-empty intersection of closed halfspaces contains a minimal face,  *)
(* which is a vertex of the arrangement (Cramer's rule on three planes),   *)
(* a whole line of two planes, or a whole plane.                           *)
(***************************************************************************)
Det3(r1, r2, r3) ==
    r1[1] * (r2[2] * r3[3] - r2[3] * r3[2])
  - r1[2] * (r2[1] * r3[3] - r2[3] * r3[1])
  + r1[3] * (r2[1] * r3[2] - r2[2] * r3[1])

CramerPoint(p, q, r) ==
    Point4(Det3(<<-p.d, p.b, p.c>>, <<-q.d, q.b, q.c>>, <<-r.d, r.b, r.c>>),
           Det3(<<p.a, -p.d, p.c>>, <<q.a, -q.d, q.c>>, <<r.a, -r.d, r.c>>),
           Det3(<<p.a, p.b, -p.d>>, <<q.a, q.b, -q.d>>, <<r.a, r.b, -r.d>>),
           Det3(<<p.a, p.b, p.c>>, <<q.a, q.b, q.c>>, <<r.a, r.b, r.c>>))

\* the plane through the origin orthogonal to the common direction of p and q
OrthogonalThroughOrigin(p, q) ==
    LET n == Cross(<<p.a, p.b, p.c>>, <<q.a, q.b, q.c>>) IN Plane(n[1], n[2], n[3], 0)

\* the foot of the perpendicular from the origin onto p
FootPoint(p) == Point4(-p.d * p.a, -p.d * p.b, -p.d * p.c, p.a * p.a + p.b * p.b + p.c * p.c)

\* pt (with pt.w # 0) lies in the closed halfspace a*x + b*y + c*z + d <= 0
InHalfspace(pt, pl) == (pl.a * pt.x + pl.b * pt.y + pl.c * pt.z + pl.d * pt.w) * pt.w <= 0

OnPlane(pt, pl) == pl.a * pt.x + pl.b * pt.y + pl.c * pt.z + pl.d * pt.w = 0

CandidatePoints(planes) ==
    LET I == 1..Len(planes) IN
    { CramerPoint(planes[i], planes[j], planes[k]) : i, j, k \in I }
    \cup { CramerPoint(planes[i], planes[j], OrthogonalThroughOrigin(planes[i], planes[j])) : i, j \in I }
    \cup { FootPoint(planes[i]) : i \in I }

HalfspacesIntersect(planes) ==
    \/ Len(planes) = 0
    \/ \E pt \in CandidatePoints(planes) :
         /\ pt.w # 0
         /\ \A i \in 1..Len(planes) : InHalfspace(pt, planes[i])

(***************************************************************************)
(* C3: with stop() never called, solve() returns has_solution exactly when *)
(* the closed halfspaces of the planes given to set_planes have a common   *)
(* point, whatever the shuffle.                                            *)
(***************************************************************************)
C3_SolveDecidesFeasibility ==
    (input.kind = "planes" /\ worker.pc = "done" /\ hist.stop_calls = 0)
      => (worker.ret = "has_solution" <=> HalfspacesIntersect(input.planes))

C3_Witness ==
    /\ input.kind = "planes" /\ worker.pc = "done" /\ hist.stop_calls = 0
    /\ Len(input.planes) = 4
    /\ worker.ret = "infeasible"
    /\ solver.m_mapping # <<1, 2, 3, 4>>
    /\ \A i \in 1..4 : HalfspacesIntersect([j \in 1..3 |-> input.planes[IF j < i THEN j ELSE j + 1]])

(***************************************************************************)
(* C9: when solve() returns has_solution for a non-empty list, the stored  *)
(* solution is a plane, a line or a point; its any_point() classifies <= 0 *)
(* against every given plane; solution_planes() names, in the caller's     *)
(* indexing, the planes the solution was built from, -1 in unused slots.   *)
(***************************************************************************)
SupportOk(sol, sp, planes) ==
    LET n == Len(planes)
        used == IF is_point(sol) THEN 3 ELSE IF is_line(sol) THEN 2 ELSE 1
    IN  /\ \A k \in 1..3 : IF k <= used THEN sp[k] \in 0..(n - 1) ELSE sp[k] = -1
        /\ sol.plane = planes[sp[1] + 1]
        /\ used >= 2 => sol.line = intersect_pp(planes[sp[1] + 1], planes[sp[2] + 1])
        /\ used >= 3 => sol.position = intersect_lp(sol.line, planes[sp[3] + 1])
        /\ \A k \in 1..used : OnPlane(solution_any_point(sol), planes[sp[k] + 1])

C9_SolutionWitness ==
    (input.kind = "planes" /\ worker.pc = "done" /\ worker.ret = "has_solution"
        /\ Len(input.planes) > 0)
      => /\ ~is_space(solver.m_solution)
         /\ point_is_valid(solution_any_point(solver.m_solution))
         /\ \A i \in 1..Len(input.planes) :
              classify(solution_any_point(solver.m_solution), input.planes[i]) <= 0
         /\ SupportOk(solver.m_solution,
                      solution_planes(solver.m_solution, solver.m_mapping), input.planes)

C9_Witness ==
    /\ input.kind = "planes" /\ worker.pc = "done" /\ worker.ret = "has_solution"
    /\ Len(input.planes) = 4
    /\ is_point(solver.m_solution)
    /\ solution_planes(solver.m_solution, solver.m_mapping)[1] > solution_planes(solver.m_solution, solver.m_mapping)[2]
    /\ solver.m_solution.plane_idx_0 > solver.m_solution.plane_idx_1

\* a function over 1..n as an explicit sequence
AsSeq(f) == f \o <<>>

(***************************************************************************)
(* Input meshes of compute_kernel: triangle meshes given by the integer    *)
(* positions of their vertices and the vertex triples of their faces.      *)
(* Vertices, faces and edges are numbered from 1; 0 is the invalid handle. *)
(* Edges are numbered in the order in which adding the faces creates them; *)
(* halfedgeA of an edge is the side of the face that created it.           *)
(***************************************************************************)
TriMesh(pos, faces) == [pos |-> pos, faces |-> faces]

Sides(m) ==
    [n \in 1..(3 * Len(m.faces)) |->
        LET f == ((n - 1) \div 3) + 1
            k == ((n - 1) % 3) + 1
        IN  [from |-> m.faces[f][k], to |-> m.faces[f][(k % 3) + 1],
             next_to |-> m.faces[f][((k + 1) % 3) + 1], face |-> f]]

\* mesh.edges(): faceA, faceB (0 on a boundary edge) and, for init_edge_state,
\* v_opp = e.halfedgeB().next().vertex_to().  S lists the sides of the faces;
\* an edge is created by the first side that uses it.
first_opposite(S, n) ==
    IF \A k \in 1..Len(S) : ~(S[k].from = S[n].to /\ S[k].to = S[n].from) THEN 0
    ELSE CHOOSE k \in 1..Len(S) :
            /\ S[k].from = S[n].to /\ S[k].to = S[n].from
            /\ \A j \in 1..(k - 1) : ~(S[j].from = S[n].to /\ S[j].to = S[n].from)

edge_at(S, n, k) ==
    [faceA |-> S[n].face,
     faceB |-> IF k = 0 THEN 0 ELSE S[k].face,
     v_opp |-> IF k = 0 THEN 0 ELSE S[k].next_to]

edges_of_sides(S) ==
    SelectSeq([n \in 1..Len(S) |->
                  IF \A k \in 1..(n - 1) : {S[k].from, S[k].to} # {S[n].from, S[n].to}
                    THEN edge_at(S, n, first_opposite(S, n))
                    ELSE [faceA |-> 0, faceB |-> 0, v_opp |-> 0]],
              LAMBDA e : e.faceA # 0)

InputEdges(m) == edges_of_sides(AsSeq(Sides(m)))

\* e.is_boundary() for some edge of the mesh
any_boundary(E) == \E i \in 1..Len(E) : E[i].faceB = 0

has_boundary_edge(m) == any_boundary(InputEdges(m))

\* init_input_planes: compute_face_plane of one face
compute_face_plane(m, f, use_unordered_set) ==
    LET p0 == m.pos[m.faces[f][1]]
        n == Cross(Sub3(m.pos[m.faces[f][2]], p0), Sub3(m.pos[m.faces[f][3]], p0))
        factor == Gcd(Gcd(Abs(n[1]), Abs(n[2])), Abs(n[3]))
        r == IF use_unordered_set /\ factor > 1
               THEN <<n[1] \div factor, n[2] \div factor, n[3] \div factor>> ELSE n
    IN  IF n = <<0, 0, 0>> THEN ZeroPlane
        ELSE Plane(r[1], r[2], r[3], (-r[1]) * p0[1] + (-r[2]) * p0[2] + (-r[3]) * p0[3])

init_input_planes(m, use_unordered_set) ==
    [f \in 1..Len(m.faces) |-> compute_face_plane(m, f, use_unordered_set)]

\* a variant of compute_edge_classification that does not test the validity
\* of the two planes (sensitivity analysis)
compute_edge_classification_any(m, planes, e) ==
    IF e.faceB = 0 THEN "boundary"
    ELSE LET c == classify_pos(m.pos[e.v_opp], planes[e.faceA])
         IN  IF c = -1 THEN "convex"
             ELSE IF c = 1 THEN "concave"
             ELSE IF Sign(planes[e.faceA].a * planes[e.faceB].a
                            + planes[e.faceA].b * planes[e.faceB].b
                            + planes[e.faceA].c * planes[e.faceB].c) = 1
                    THEN "planar" ELSE "concave"

\* init_edge_state: compute_edge_classification of one edge
compute_edge_classification(m, planes, e) ==
    IF e.faceB = 0 THEN "boundary"
    ELSE LET pa == planes[e.faceA]
             pb == planes[e.faceB]
             c == classify_pos(m.pos[e.v_opp], pa)
         IN  IF plane_is_valid(pa) /\ plane_is_valid(pb)
               THEN IF c = -1 THEN "convex"
                    ELSE IF c = 1 THEN "concave"
                    ELSE IF Sign(pa.a * pb.a + pa.b * pb.b + pa.c * pb.c) = 1
                           THEN "planar" ELSE "concave"
               ELSE "degenerate"

classify_edges(m, planes, E) ==
    AsSeq([i \in 1..Len(E) |-> compute_edge_classification(m, planes, E[i])])

init_edge_state(m, planes) == classify_edges(m, planes, InputEdges(m))

\* a variant of all_convex_or_planar that finds no input convex (sensitivity
\* analysis)
never_convex(states) == FALSE

\* m_input_is_convex as init_edge_state leaves it
all_convex_or_planar(states) ==
    \A i \in 1..Len(states) : states[i] \in {"convex", "planar"}

\* one of the edges of face f is concave, boundary or degenerate
has_concave_edge(E, states, f) ==
    \E i \in 1..Len(E) :
        /\ f \in {E[i].faceA, E[i].faceB}
        /\ states[i] \in {"concave", "boundary", "degenerate"}

(***************************************************************************)
(* The cutting-plane list.  Both constructions yield m_face_of_plane and   *)
(* m_number_concave_planes; m_cutting_planes[i] is the input plane of      *)
(* m_face_of_plane[i].                                                     *)
(***************************************************************************)
\* pm::detail::disjoint_set: union by size over the face indices
RECURSIVE uf_find(_, _)
uf_find(parent, i) == IF parent[i] = i THEN i ELSE uf_find(parent, parent[i])

do_union(uf, x, y) ==
    LET xr == uf_find(uf.parent, x)
        yr == uf_find(uf.parent, y)
        big == IF uf.size[xr] < uf.size[yr] THEN yr ELSE xr
        small == IF uf.size[xr] < uf.size[yr] THEN xr ELSE yr
    IN  IF xr = yr THEN uf
        ELSE [parent |-> [uf.parent EXCEPT ![small] = big],
              size |-> [uf.size EXCEPT ![big] = @ + uf.size[small]]]

\* the first loop of init_cutting_planes_flood_fill: merge coplanar regions
RECURSIVE merge_planar(_, _, _, _)
merge_planar(uf, E, states, i) ==
    IF i > Len(E) THEN uf
    ELSE IF states[i] = "planar"
              /\ uf_find(uf.parent, E[i].faceA) # uf_find(uf.parent, E[i].faceB)
      THEN merge_planar(do_union(uf, E[i].faceA, E[i].faceB), E, states, i + 1)
    ELSE merge_planar(uf, E, states, i + 1)

\* push a representative face unless visited; faces with an invalid plane are
\* marked but not pushed
visit_rep(acc, rep, planes) ==
    IF rep \in acc.visited THEN acc
    ELSE [faces |-> IF plane_is_valid(planes[rep]) THEN Append(acc.faces, rep) ELSE acc.faces,
          visited |-> acc.visited \cup {rep}]

\* the second loop: the planes next to edges that are neither convex nor
\* planar.  A boundary edge has an invalid face; its index -1 is looked up
\* out of bounds, and oob_face is the face that lookup happens to produce.
RECURSIVE collect_concave(_, _, _, _, _, _, _)
collect_concave(acc, parent, E, states, planes, oob_face, i) ==
    IF i > Len(E) THEN acc
    ELSE IF states[i] \in {"convex", "planar"}
      THEN collect_concave(acc, parent, E, states, planes, oob_face, i + 1)
      ELSE LET rep_a == uf_find(parent, E[i].faceA)
               rep_b == IF E[i].faceB = 0 THEN oob_face ELSE uf_find(parent, E[i].faceB)
           IN  IF {rep_a, rep_b} \subseteq acc.visited
                 THEN collect_concave(acc, parent, E, states, planes, oob_face, i + 1)
               ELSE collect_concave(visit_rep(visit_rep(acc, rep_a, planes), rep_b, planes),
                                    parent, E, states, planes, oob_face, i + 1)

\* a variant of collect_other that leaves the third loop out (sensitivity
\* analysis)
collect_other_none(acc, parent, planes, nf, f) == acc

\* the third loop: all the other face planes
RECURSIVE collect_other(_, _, _, _, _)
collect_other(acc, parent, planes, nf, f) ==
    IF f > nf THEN acc
    ELSE IF uf_find(parent, f) \in acc.visited
      THEN collect_other(acc, parent, planes, nf, f + 1)
    ELSE collect_other(visit_rep(acc, uf_find(parent, f), planes), parent, planes, nf, f + 1)

\* the three loops in order: uf is the union-find after the first loop and
\* concave the faces the second loop collected
flood_fill_result(concave, all) ==
    [m_face_of_plane |-> all.faces, m_number_concave_planes |-> Len(concave.faces)]

flood_fill_others(concave, parent, planes, nf) ==
    flood_fill_result(concave, collect_other(concave, parent, planes, nf, 1))

flood_fill_concave(uf, E, states, planes, oob_face, nf) ==
    flood_fill_others(collect_concave([faces |-> <<>>, visited |-> {}], uf.parent, E, states,
                                      planes, oob_face, 1),
                      uf.parent, planes, nf)

flood_fill_edges(E, planes, states, oob_face, nf) ==
    flood_fill_concave(merge_planar([parent |-> AsSeq([f \in 1..nf |-> f]),
                                     size |-> AsSeq([f \in 1..nf |-> 1])],
                                    E, states, 1),
                       E, states, planes, oob_face, nf)

init_cutting_planes_flood_fill(m, planes, states, oob_face) ==
    flood_fill_edges(InputEdges(m), planes, states, oob_face, Len(m.faces))

\* init_cutting_planes_uset: one face per distinct plane, the faces with a
\* concave, boundary or degenerate edge first
first_with_plane(planes, f) ==
    plane_is_valid(planes[f]) /\ \A g \in 1..(f - 1) : planes[g] # planes[f]

uset_faces(E, planes, states, nf, concave) ==
    SelectSeq([f \in 1..nf |-> f],
              LAMBDA f : first_with_plane(planes, f) /\ (has_concave_edge(E, states, f) = concave))

uset_result(concave_faces, convex_faces) ==
    [m_face_of_plane |-> concave_faces \o convex_faces,
     m_number_concave_planes |-> Len(concave_faces)]

uset_edges(E, planes, states, nf) ==
    uset_result(uset_faces(E, planes, states, nf, TRUE), uset_faces(E, planes, states, nf, FALSE))

init_cutting_planes_uset(m, planes, states) ==
    uset_edges(InputEdges(m), planes, states, Len(m.faces))

\* the faces an out-of-bounds lookup of init_cutting_planes_flood_fill can
\* produce (only read when the input has a boundary edge)
OobFaces(m, states) ==
    IF \E i \in 1..Len(states) : states[i] = "boundary" THEN 1..Len(m.faces) ELSE {1}

(***************************************************************************)
(* The inputs analysed                                                     *)
(***************************************************************************)
\* the prism over a polygon with triangulated caps between z0 and z1
PrismMesh(poly, tris, z0, z1) ==
    LET n == Len(poly)
        bottom == [i \in 1..Len(tris) |-> <<tris[i][1], tris[i][3], tris[i][2]>>]
        top == [i \in 1..Len(tris) |-> <<tris[i][1] + n, tris[i][2] + n, tris[i][3] + n>>]
        side == [j \in 1..(2 * n) |->
                    LET i == (j + 1) \div 2
                        k == (i % n) + 1
                    IN  IF j % 2 = 1 THEN <<i, k, k + n>> ELSE <<i, k + n, i + n>>]
    IN  TriMesh([i \in 1..(2 * n) |->
                    IF i <= n THEN <<poly[i][1], poly[i][2], z0>>
                    ELSE <<poly[i - n][1], poly[i - n][2], z1>>],
                bottom \o top \o side)

HexagonCaps == << <<1, 2, 3>>, <<3, 4, 5>>, <<5, 6, 1>>, <<1, 3, 5>> >>

\* a tetrahedron: convex
Tetrahedron ==
    TriMesh(<< <<0, 0, 0>>, <<4, 0, 0>>, <<0, 4, 0>>, <<0, 0, 4>> >>,
            << <<1, 3, 2>>, <<1, 2, 4>>, <<1, 4, 3>>, <<2, 3, 4>> >>)

\* the tetrahedron with its slanted face pushed in to (1,1,1): kernel with volume
DentedTetrahedron ==
    TriMesh(<< <<0, 0, 0>>, <<4, 0, 0>>, <<0, 4, 0>>, <<0, 0, 4>>, <<1, 1, 1>> >>,
            << <<1, 3, 2>>, <<1, 2, 4>>, <<1, 4, 3>>, <<2, 3, 5>>, <<3, 4, 5>>, <<4, 2, 5>> >>)

\* a three-armed pinwheel prism: the kernel is the segment (0,0,0)-(0,0,2)
PinwheelPrism ==
    PrismMesh(<< <<1, 0>>, <<3, 0>>, <<-1, 2>>, <<-2, 4>>, <<-1, -2>>, <<-2, -4>> >>,
              HexagonCaps, 0, 2)

\* an S-shaped prism: the kernel is the flat rectangle y = 0, -1 <= x <= 1
SPrism ==
    PrismMesh(<< <<1, 0>>, <<3, 0>>, <<0, 2>>, <<-1, 0>>, <<-3, 0>>, <<0, -2>> >>,
              << <<1, 2, 3>>, <<1, 3, 4>>, <<4, 5, 6>>, <<4, 6, 1>> >>, 0, 2)

\* a pinwheel prism whose arms miss each other: the kernel is empty
SkewPinwheelPrism ==
    PrismMesh(<< <<2, 0>>, <<4, -1>>, <<-1, 2>>, <<-2, 5>>, <<-1, -2>>, <<-2, -3>> >>,
              HexagonCaps, 0, 2)

\* an L-shaped prism: the kernel is the box 0 <= x, y <= 2, and the planes
\* x = 6 and y = 6 of the arm ends lie far outside it
LPrism ==
    PrismMesh(<< <<0, 0>>, <<6, 0>>, <<6, 2>>, <<2, 2>>, <<2, 6>>, <<0, 6>> >>,
              << <<1, 2, 3>>, <<1, 3, 4>>, <<1, 4, 5>>, <<1, 5, 6>> >>, 0, 2)

\* the dent pushed all the way to the corner (0,0,0): the face planes are
\* x, y, z >= 0 and x, y, z <= 0, and the kernel is the single point (0,0,0)
CollapsedTetrahedron ==
    TriMesh(<< <<0, 0, 0>>, <<4, 0, 0>>, <<0, 4, 0>>, <<0, 0, 4>>, <<0, 0, 0>> >>,
            << <<1, 3, 2>>, <<1, 2, 4>>, <<1, 4, 3>>, <<2, 3, 5>>, <<3, 4, 5>>, <<4, 2, 5>> >>)

\* the collapsed tetrahedron whose bottom face is pushed down to (1,1,-1):
\* eight face planes, seven of them through (0,0,0), which is the kernel
PocketTetrahedron ==
    TriMesh(<< <<0, 0, 0>>, <<4, 0, 0>>, <<0, 4, 0>>, <<0, 0, 4>>, <<0, 0, 0>>, <<1, 1, -1>> >>,
            << <<1, 3, 6>>, <<3, 2, 6>>, <<2, 1, 6>>, <<1, 2, 4>>, <<1, 4, 3>>,
               <<2, 3, 5>>, <<3, 4, 5>>, <<4, 2, 5>> >>)

\* a closed mesh that lies in the plane z = 0: the face (1,2,4) is collinear,
\* the face (1,3,2) looks down and the other two look up
FlatTetrahedron ==
    TriMesh(<< <<0, 0, 0>>, <<4, 0, 0>>, <<0, 4, 0>>, <<2, 0, 0>> >>,
            << <<1, 3, 2>>, <<1, 2, 4>>, <<1, 4, 3>>, <<2, 3, 4>> >>)

\* a box with a V-shaped groove in its side y = 4; the two walls left of that
\* side lie in one plane and share no edge.  The kernel is the prism over the
\* triangle (0,0), (6,0), (3,3).
StraightNotchedPrism ==
    PrismMesh(<< <<0, 0>>, <<6, 0>>, <<6, 4>>, <<4, 4>>, <<3, 3>>, <<2, 4>>, <<0, 4>> >>,
              << <<1, 2, 5>>, <<2, 3, 4>>, <<2, 4, 5>>, <<1, 5, 6>>, <<1, 6, 7>> >>, 0, 2)

\* the same with the foot of the wall x = 0 moved out to x = -1: the plane of
\* that wall, 2x - z + 2 >= 0, meets the kernel in the single point (0,0,2)
NotchedPrism ==
    TriMesh([i \in 1..14 |->
                IF i \in {1, 7} THEN <<-1, StraightNotchedPrism.pos[i][2], 0>>
                ELSE StraightNotchedPrism.pos[i]],
            StraightNotchedPrism.faces)

\* the tetrahedron whose face 1-2-4 is split at the midpoint 5 of the edge
\* 1-2, with the zero-area triangle 1-2-5 closing the gap
SliverTetrahedron ==
    TriMesh(<< <<0, 0, 0>>, <<4, 0, 0>>, <<0, 4, 0>>, <<0, 0, 4>>, <<2, 0, 0>> >>,
            << <<1, 3, 2>>, <<1, 5, 4>>, <<5, 2, 4>>, <<1, 2, 5>>, <<1, 4, 3>>, <<2, 3, 4>> >>)

\* the pinwheel prism with its top in the plane z = 4 + x: the walls leave
\* the segment (0,0,0)-(0,0,7) of the cuboid and the top cuts it at (0,0,4)
SlantedPinwheelPrism ==
    TriMesh([i \in 1..12 |->
                IF i <= 6 THEN PinwheelPrism.pos[i]
                ELSE <<PinwheelPrism.pos[i][1], PinwheelPrism.pos[i][2],
                       4 + PinwheelPrism.pos[i][1]>>],
            PinwheelPrism.faces)

\* the dented tetrahedron without its bottom face: three boundary edges
OpenDentedTetrahedron ==
    TriMesh(DentedTetrahedron.pos, SubSeq(DentedTetrahedron.faces, 2, 6))

(***************************************************************************)
(* The candidate polyhedron m_mesh: a polymesh half-edge mesh.             *)
(*   vout[v]   an outgoing halfedge of vertex v, 0 when v is isolated,     *)
(*             -1 when v is removed                                        *)
(*   hto[h], hnext[h], hprev[h], hface[h]   target vertex, successor,      *)
(*             predecessor and face (0: none) of halfedge h; hto[h] = -1   *)
(*             when the edge is removed                                    *)
(*   fhe[f]    a halfedge of face f, -1 when f is removed                  *)
(* The halfedges of edge e are 2e - 1 and 2e.  Handles are never reused.   *)
(* Attributes: pos (m_position_point4), dpos (m_position_dpos, as a        *)
(* reduced fraction <<x, y, z, w>> with w > 0), line (m_edge_lines),       *)
(* splane (m_supporting_plane), inface (m_input_face).                     *)
(* fault collects the library preconditions and CC_ASSERTs the run has     *)
(* violated (they do not stop a release build).                            *)
(***************************************************************************)
opposite(h) == IF h % 2 = 1 THEN h + 1 ELSE h - 1

edge_of(h) == (h + 1) \div 2

vertex_to(M, h) == M.hto[h]

vertex_from(M, h) == M.hto[opposite(h)]

LiveVertices(M) == {v \in 1..Len(M.vout) : M.vout[v] >= 0}

LiveHalfedges(M) == {h \in 1..Len(M.hto) : M.hto[h] > 0}

LiveFaces(M) == {f \in 1..Len(M.fhe) : M.fhe[f] > 0}

\* vertex.outgoing_halfedges(): the circulator starts at the stored outgoing
\* halfedge and advances by prev().opposite()
RECURSIVE out_ring_from(_, _, _, _)
out_ring_from(M, h0, h, acc) ==
    LET n == opposite(M.hprev[h])
    IN  IF n = h0 \/ Len(acc) >= Len(M.hto) THEN Append(acc, h)
        ELSE out_ring_from(M, h0, n, Append(acc, h))

outgoing_halfedges(M, v) ==
    IF M.vout[v] <= 0 THEN <<>> ELSE out_ring_from(M, M.vout[v], M.vout[v], <<>>)

\* the first halfedge of ring that ends at v, 0 when there is none
first_to(M, ring, v) ==
    IF \A i \in 1..Len(ring) : M.hto[ring[i]] # v THEN 0
    ELSE ring[CHOOSE i \in 1..Len(ring) :
                 /\ M.hto[ring[i]] = v
                 /\ \A j \in 1..(i - 1) : M.hto[ring[j]] # v]

\* the halfedge from u to v, 0 when they are not adjacent
find_halfedge(M, u, v) == first_to(M, outgoing_halfedges(M, u), v)

are_adjacent(M, u, v) == find_halfedge(M, u, v) # 0

\* vertex.faces().size(): the valid faces around v
faces_on(M, ring) == Cardinality({i \in 1..Len(ring) : M.hface[ring[i]] # 0})

vertex_face_count(M, v) == faces_on(M, outgoing_halfedges(M, v))

\* to_dpos3_fast, kept as a reduced fraction
to_dpos(pt) ==
    LET g == Gcd(Gcd(Abs(pt.x), Abs(pt.y)), Gcd(Abs(pt.z), Abs(pt.w)))
        s == IF pt.w < 0 THEN -g ELSE g
    IN  IF g = 0 THEN <<0, 0, 0, 0>>
        ELSE <<pt.x \div s, pt.y \div s, pt.z \div s, pt.w \div s>>

\* a closed mesh of faces with k vertices each, as faces().add builds it: the
\* edges in the order of their first use, halfedge 2e - 1 in the face that
\* created edge e
MeshOfFaces(nv, faces, k) ==
    LET nf == Len(faces)
        N == k * nf
        side(n) == LET f == ((n - 1) \div k) + 1
                       i == ((n - 1) % k) + 1
                   IN  [from |-> faces[f][i], to |-> faces[f][(i % k) + 1], face |-> f]
        first(n) == \A j \in 1..(n - 1) : {side(j).from, side(j).to} # {side(n).from, side(n).to}
        rank(n) == Cardinality({j \in 1..n : first(j)})
        twin(n) == CHOOSE j \in 1..N : side(j).from = side(n).to /\ side(j).to = side(n).from
        he(n) == IF first(n) THEN 2 * rank(n) - 1 ELSE 2 * rank(twin(n))
        side_of == [h \in 1..N |-> CHOOSE n \in 1..N : he(n) = h]
        succ(n) == IF (n - 1) % k = k - 1 THEN n - (k - 1) ELSE n + 1
        pred(n) == IF (n - 1) % k = 0 THEN n + (k - 1) ELSE n - 1
    IN  [vout |-> [v \in 1..nv |->
                     CHOOSE h \in 1..N : /\ side(side_of[h]).from = v
                                         /\ \A g \in 1..(h - 1) : side(side_of[g]).from # v],
         hto |-> [h \in 1..N |-> side(side_of[h]).to],
         hnext |-> [h \in 1..N |-> he(succ(side_of[h]))],
         hprev |-> [h \in 1..N |-> he(pred(side_of[h]))],
         hface |-> [h \in 1..N |-> side(side_of[h]).face],
         fhe |-> [f \in 1..nf |-> he(k * (f - 1) + 1)]]

\* pm::objects::add_cube: the vertices v000, v001, ..., v111 and six quads
CubeFaces ==
    << <<1, 2, 4, 3>>, <<5, 7, 8, 6>>, <<1, 5, 6, 2>>,
       <<3, 4, 8, 7>>, <<1, 3, 7, 5>>, <<2, 6, 8, 4>> >>

\* tg::aabb_of(input_position)
aabb_of(pos) ==
    [min |-> [d \in 1..3 |-> CHOOSE x \in {pos[i][d] : i \in 1..Len(pos)} :
                                \A i \in 1..Len(pos) : x <= pos[i][d]],
     max |-> [d \in 1..3 |-> CHOOSE x \in {pos[i][d] : i \in 1..Len(pos)} :
                                \A i \in 1..Len(pos) : x >= pos[i][d]]]

\* init_with_aabb: the position of cube vertex v (bits x, y, z of v - 1)
cube_position(box, v) ==
    LET x == (v - 1) \div 4
        y == ((v - 1) \div 2) % 2
        z == (v - 1) % 2
    IN  << box.min[1] + x * (box.max[1] - box.min[1]),
           box.min[2] + y * (box.max[2] - box.min[2]),
           box.min[3] + z * (box.max[3] - box.min[3]) >>

\* set_edge_lines: the line of the edge from p0 = vertexA to p1 = vertexB
edge_line(p0, p1) ==
    LET d == Sub3(p1, p0)
        planeA == IF d[1] # 0 THEN from_pos_normal(p0, Cross(d, <<0, 1, 0>>))
                  ELSE IF d[2] # 0 THEN from_pos_normal(p0, Cross(d, <<0, 0, 1>>))
                  ELSE from_pos_normal(p0, Cross(d, <<1, 0, 0>>))
        planeB == IF d[1] # 0 THEN from_pos_normal(p0, Cross(d, <<0, 0, 1>>))
                  ELSE IF d[2] # 0 THEN from_pos_normal(p0, Cross(d, <<1, 0, 0>>))
                  ELSE from_pos_normal(p0, Cross(d, <<0, 1, 0>>))
    IN  intersect_pp(planeA, planeB)

\* the vertices of face f from its stored halfedge on
RECURSIVE face_vertices_from(_, _, _, _)
face_vertices_from(M, h0, h, acc) ==
    IF M.hnext[h] = h0 \/ Len(acc) >= Len(M.hto) THEN Append(acc, M.hto[h])
    ELSE face_vertices_from(M, h0, M.hnext[h], Append(acc, M.hto[h]))

face_vertices(M, f) == face_vertices_from(M, M.fhe[f], M.fhe[f], <<>>)

\* the connectivity of the cube
CubeTopology == MeshOfFaces(8, CubeFaces, 4)

\* the cube with its vertices at the positions ip
cube_mesh(T, ip) ==
    [vout |-> AsSeq(T.vout), hto |-> AsSeq(T.hto), hnext |-> AsSeq(T.hnext),
     hprev |-> AsSeq(T.hprev), hface |-> AsSeq(T.hface), fhe |-> AsSeq(T.fhe),
     pos |-> AsSeq([v \in 1..8 |-> PointOfPos(ip[v])]),
     dpos |-> AsSeq([v \in 1..8 |-> <<ip[v][1], ip[v][2], ip[v][3], 1>>]),
     line |-> AsSeq([e \in 1..12 |-> edge_line(ip[T.hto[2 * e - 1]], ip[T.hto[2 * e]])]),
     splane |-> AsSeq([f \in 1..6 |->
                   from_points_no_gcd(ip[face_vertices(T, f)[1]], ip[face_vertices(T, f)[2]],
                                      ip[face_vertices(T, f)[3]])]),
     inface |-> AsSeq([f \in 1..6 |-> 0]),
     fault |-> {}]

\* init_with_aabb: the eight corner positions of the box
cube_positions(box) == AsSeq([v \in 1..8 |-> cube_position(box, v)])

\* init_supporting_structure: m_mesh becomes the cube of the bounding box
init_supporting_structure(inpos) == cube_mesh(CubeTopology, cube_positions(aabb_of(inpos)))

(***************************************************************************)
(* The polymesh operations the cut uses (called at kernel-plane-cut.cc     *)
(* 994, 1012, 1024 and 1042).                                              *)
(***************************************************************************)
connect_prev_next(M, p, n) ==
    [M EXCEPT !.hnext[p] = n, !.hprev[n] = p]

\* halfedges().split(h): a new vertex v on h; h keeps its source and now ends
\* at v, the new edge follows h.  Attributes of v and of the new edge are
\* appended with the values given.
halfedge_split(M, h, point, new_line) ==
    LET v == Len(M.vout) + 1
        h1 == Len(M.hto) + 1
        h2 == Len(M.hto) + 2
        ho == opposite(h)
        b == M.hto[h]
        hn == M.hnext[h]
        hop == M.hprev[ho]
        v_out == IF M.hface[h] # 0 /\ M.hface[ho] = 0 THEN ho ELSE h1
    IN  [M EXCEPT
           !.vout = Append([@ EXCEPT ![b] = IF @ = ho THEN h2 ELSE @], v_out),
           !.hto = [@ EXCEPT ![h] = v] \o <<b, v>>,
           !.hface = @ \o <<M.hface[h], M.hface[ho]>>,
           !.hnext = [[@ EXCEPT ![h] = h1] EXCEPT ![hop] = IF hop = h THEN h1 ELSE h2]
                       \o <<IF hn = ho THEN h2 ELSE hn, ho>>,
           !.hprev = [[@ EXCEPT ![ho] = h2] EXCEPT ![hn] = IF hn = ho THEN h2 ELSE h1]
                       \o <<h, IF hop = h THEN h1 ELSE hop>>,
           !.pos = Append(@, point),
           !.dpos = Append(@, to_dpos(point)),
           !.line = Append(@, new_line)]

\* the halfedges of the loop of h from h on
RECURSIVE loop_from(_, _, _, _)
loop_from(M, h0, h, acc) ==
    IF M.hnext[h] = h0 \/ Len(acc) >= Len(M.hto) THEN Append(acc, h)
    ELSE loop_from(M, h0, M.hnext[h], Append(acc, h))

halfedge_loop(M, h) == loop_from(M, h, h, <<>>)

\* the halfedges of loop get face nf
relabel_loop(W, loop, nf) ==
    [W EXCEPT !.hface = AsSeq([h \in 1..Len(W.hto) |->
                            IF \E i \in 1..Len(loop) : loop[i] = h THEN nf ELSE W.hface[h]])]

\* faces().cut(f, h0, h1): a new edge from h0.vertex_to() to h1.vertex_to();
\* its first halfedge stays in f together with h0 (face_cut_link), the other
\* side of the cut becomes a new face (relabel_loop)
face_cut_link(M, f, h0, h1, new_line) ==
    LET nh0 == Len(M.hto) + 1
        nh1 == Len(M.hto) + 2
        h0n == M.hnext[h0]
        h1n == M.hnext[h1]
    IN  [M EXCEPT
           !.hto = @ \o <<M.hto[h1], M.hto[h0]>>,
           !.hnext = [[@ EXCEPT ![h0] = nh0] EXCEPT ![h1] = nh1] \o <<h1n, h0n>>,
           !.hprev = [[@ EXCEPT ![h1n] = nh0] EXCEPT ![h0n] = nh1] \o <<h0, h1>>,
           !.hface = @ \o <<f, Len(M.fhe) + 1>>,
           !.fhe = Append([@ EXCEPT ![f] = nh0], nh1),
           !.line = Append(@, new_line),
           !.splane = Append(@, M.splane[f]),
           !.inface = Append(@, M.inface[f])]

face_cut_new_face(W, nh1, nf) == relabel_loop(W, halfedge_loop(W, nh1), nf)

face_cut(M, f, h0, h1, new_line) ==
    face_cut_new_face(face_cut_link(M, f, h0, h1, new_line), Len(M.hto) + 2, Len(M.fhe) + 1)

\* remove_face: the halfedges of f, which form loop, lose their face, and each
\* becomes the stored outgoing halfedge of its source
unlink_loop(M, f, loop) ==
    [M EXCEPT
       !.hface = AsSeq([h \in 1..Len(M.hto) |->
                    IF \E i \in 1..Len(loop) : loop[i] = h THEN 0 ELSE M.hface[h]]),
       !.vout = AsSeq([v \in 1..Len(M.vout) |->
                   IF \E i \in 1..Len(loop) : vertex_from(M, loop[i]) = v
                     THEN loop[CHOOSE i \in 1..Len(loop) :
                                  /\ vertex_from(M, loop[i]) = v
                                  /\ \A j \in (i + 1)..Len(loop) : vertex_from(M, loop[j]) # v]
                     ELSE M.vout[v]]),
       !.fhe[f] = -1]

remove_face(M, f) == unlink_loop(M, f, halfedge_loop(M, M.fhe[f]))

\* remove_edge: removes the faces next to e (remove_face_at), splices its
\* halfedges out of the loops around its end points and marks them removed
\* (splice_edge)
remove_face_at(M, h) == IF M.hface[h] # 0 THEN remove_face(M, M.hface[h]) ELSE M

splice_edge(M, h_in, h_out) ==
    LET v_in_to == M.hto[h_in]
        v_out_to == M.hto[h_out]
        hi_out_prev == M.hprev[h_out]
        hi_out_next == M.hnext[h_out]
        hi_in_prev == M.hprev[h_in]
        hi_in_next == M.hnext[h_in]
    IN  [M EXCEPT
           !.hnext = [[@ EXCEPT ![hi_in_prev] = hi_out_next] EXCEPT ![hi_out_prev] = hi_in_next],
           !.hprev = [[@ EXCEPT ![hi_out_next] = hi_in_prev] EXCEPT ![hi_in_next] = hi_out_prev],
           !.vout = [[@ EXCEPT ![v_in_to] =
                         IF M.vout[v_in_to] = h_out
                           THEN (IF hi_in_next = h_out THEN 0 ELSE hi_in_next)
                           ELSE M.vout[v_in_to]]
                       EXCEPT ![v_out_to] =
                         IF M.vout[v_out_to] = h_in
                           THEN (IF hi_out_next = h_in THEN 0 ELSE hi_out_next)
                           ELSE M.vout[v_out_to]],
           !.hto = [[@ EXCEPT ![h_in] = -1] EXCEPT ![h_out] = -1],
           !.hface = [[@ EXCEPT ![h_in] = 0] EXCEPT ![h_out] = 0]]

remove_edge(M0, e) ==
    splice_edge(remove_face_at(remove_face_at(M0, 2 * e - 1), 2 * e), 2 * e - 1, 2 * e)

\* vertices().remove(v): removes the edges at v until v is isolated
RECURSIVE remove_vertex(_, _)
remove_vertex(M, v) ==
    IF M.vout[v] <= 0 THEN [M EXCEPT !.vout[v] = -1]
    ELSE remove_vertex(remove_edge(M, edge_of(M.vout[v])), v)

\* faces().fill(h): a new face on the boundary loop of h
face_fill(M, h, plane, input_face) ==
    [relabel_loop(M, halfedge_loop(M, h), Len(M.fhe) + 1) EXCEPT
       !.fhe = Append(@, h),
       !.splane = Append(@, plane),
       !.inface = Append(@, input_face)]

\* pm::is_closed_mesh: no halfedge without a face
is_closed_mesh(M) == \A h \in LiveHalfedges(M) : M.hface[h] # 0

(***************************************************************************)
(* One cut of the candidate polyhedron with the plane P = m_cutting_plane. *)
(* The cut state S holds the mesh M and m_c0_vertices (c0v), m_c0_vertex   *)
(* (c0, 0 when invalid) and m_is_c0_vertex (isc0).                         *)
(* Double precision is taken as exact: the distances of edge_descent are   *)
(* compared as fractions, and a distance is below epsilon iff it is zero.  *)
(***************************************************************************)
classify_vertex(M, v, P) == classify(M.pos[v], P)

signs_different(M, P, vA, vB) == Sign(classify_vertex(M, vA, P)) # Sign(classify_vertex(M, vB, P))

\* tg::signed_distance(m_position_dpos(v), plane) times a positive factor:
\* numerator and denominator
distance_num(M, v, P) ==
    P.a * M.dpos[v][1] + P.b * M.dpos[v][2] + P.c * M.dpos[v][3] + P.d * M.dpos[v][4]

\* abs(distance(u)) >= abs(distance(v))
not_closer(M, P, u, v) ==
    Abs(distance_num(M, u, P)) * M.dpos[v][4] >= Abs(distance_num(M, v, P)) * M.dpos[u][4]

\* edge_descent_exact: he is the halfedge returned (0: invalid), c0 the vertex
\* assigned to m_c0_vertex (0: not assigned)
RECURSIVE exact_scan(_, _, _, _)
exact_scan(M, P, ring, i) ==
    IF i > Len(ring) THEN [he |-> 0, c0 |-> 0]
    ELSE LET h == ring[i]
             c0 == classify_vertex(M, vertex_from(M, h), P)
             c1 == classify_vertex(M, vertex_to(M, h), P)
         IN  IF c0 = 0 THEN [he |-> opposite(h), c0 |-> vertex_from(M, h)]
             ELSE IF c1 = 0 THEN [he |-> h, c0 |-> vertex_to(M, h)]
             ELSE IF c0 # c1 THEN [he |-> h, c0 |-> 0]
             ELSE exact_scan(M, P, ring, i + 1)

edge_descent_exact(M, P, v) == exact_scan(M, P, outgoing_halfedges(M, v), 1)

\* the for loop of edge_descent over the ring of one vertex; closest is the
\* closest vertex so far
RECURSIVE descent_scan(_, _, _, _, _, _)
descent_scan(M, P, ring, i, closest, found) ==
    IF i > Len(ring) THEN [done |-> FALSE, closest |-> closest, found |-> found]
    ELSE LET neighbor == vertex_to(M, ring[i])
             cur == distance_num(M, neighbor, P)
         IN  IF cur = 0
               THEN [done |-> TRUE, res |-> edge_descent_exact(M, P, neighbor)]
             ELSE IF Sign(cur) # Sign(distance_num(M, closest, P))
               THEN [done |-> TRUE, res |-> [he |-> ring[i], c0 |-> 0]]
             ELSE IF not_closer(M, P, neighbor, closest)
               THEN descent_scan(M, P, ring, i + 1, closest, found)
             ELSE descent_scan(M, P, ring, i + 1, neighbor, TRUE)

\* the while loop of edge_descent: r is the outcome of the for loop
RECURSIVE descent_walk(_, _, _)
descent_step(M, P, r) ==
    IF r.done THEN r.res
    ELSE IF r.found THEN descent_walk(M, P, r.closest)
    ELSE edge_descent_exact(M, P, r.closest)

descent_walk(M, P, closest) ==
    descent_step(M, P, descent_scan(M, P, outgoing_halfedges(M, closest), 1, closest, FALSE))

\* edge_descent(start_vertex): the start halfedge and the cut state it leaves
descent_result(r, start_vertex, on_plane) ==
    [he |-> r.he,
     c0 |-> IF r.c0 # 0 THEN r.c0 ELSE IF on_plane THEN start_vertex ELSE 0,
     isc0 |-> IF on_plane THEN {start_vertex} ELSE {}]

edge_descent(M, P, start_vertex) ==
    descent_result(descent_walk(M, P, start_vertex), start_vertex,
                   classify_vertex(M, start_vertex, P) = 0)

\* a variant of split_halfedge that leaves m_position_point4 of the new
\* vertex unassigned (sensitivity analysis)
split_halfedge_unplaced(M, P, h) ==
    [halfedge_split(M, h, intersect_lp(M.line[edge_of(h)], P), M.line[edge_of(h)])
       EXCEPT !.pos[Len(M.vout) + 1] = Point4(0, 0, 0, 0)]

\* split_halfedge
split_halfedge(M, P, h) ==
    LET current_line == M.line[edge_of(h)]
    IN  halfedge_split(M, h, intersect_lp(current_line, P), current_line)

\* vertex.incoming_halfedges().where(h.face() == face).first(), 0 when none
first_in_face(M, ring, face) ==
    IF \A i \in 1..Len(ring) : M.hface[opposite(ring[i])] # face THEN 0
    ELSE opposite(ring[CHOOSE i \in 1..Len(ring) :
                          /\ M.hface[opposite(ring[i])] = face
                          /\ \A j \in 1..(i - 1) : M.hface[opposite(ring[j])] # face])

incoming_in_face(M, v, face) == first_in_face(M, outgoing_halfedges(M, v), face)

\* split_face
split_between(M, P, face, h_from, h_to) ==
    IF h_from = 0 \/ h_to = 0 THEN [M EXCEPT !.fault = @ \cup {"split_face"}]
    ELSE face_cut(M, face, h_from, h_to, intersect_pp(P, M.splane[face]))

split_face(M, P, vertex_from_, vertex_to_, face) ==
    IF face = 0 THEN M
    ELSE split_between(M, P, face, incoming_in_face(M, vertex_from_, face),
                       incoming_in_face(M, vertex_to_, face))

\* skip_non_intersecting_faces: the halfedge to continue with, 0 when invalid
RECURSIVE skip_scan(_, _, _, _, _)
skip_scan(M, P, prev_halfedge, i, n) ==
    IF i >= n THEN 0
    ELSE LET current_halfedge == opposite(prev_halfedge)
             prev == M.hprev[current_halfedge]
         IN  IF signs_different(M, P, vertex_to(M, current_halfedge), vertex_from(M, prev))
               THEN current_halfedge
               ELSE skip_scan(M, P, prev, i + 1, n)

skip_non_intersecting_faces(M, P, current_halfedge) ==
    skip_scan(M, P, current_halfedge, 0, vertex_face_count(M, vertex_to(M, current_halfedge)))

\* the inner loop of marching: follow next() while the halfedge has no sign
\* change or starts on the plane, recording the on-plane sources passed;
\* full is TRUE when the walk came back to first_he (marching then returns)
RECURSIVE trace_face(_, _, _, _)
trace_next(S1, P, nxt, first_he) ==
    IF nxt = first_he THEN [S |-> S1, cur |-> nxt, full |-> TRUE]
    ELSE trace_face(S1, P, nxt, first_he)

trace_face(S, P, cur, first_he) ==
    IF signs_different(S.M, P, vertex_to(S.M, cur), vertex_from(S.M, cur))
         /\ classify_vertex(S.M, vertex_from(S.M, cur), P) # 0
      THEN [S |-> S, cur |-> cur, full |-> FALSE]
    ELSE trace_next(IF classify_vertex(S.M, vertex_from(S.M, S.M.hnext[cur]), P) = 0
                      THEN [S EXCEPT !.isc0 = @ \cup {vertex_from(S.M, S.M.hnext[cur])},
                                     !.c0v = Append(@, vertex_from(S.M, S.M.hnext[cur]))]
                      ELSE S,
                    P, S.M.hnext[cur], first_he)

\* remove the last entry of m_c0_vertices (an empty list stays empty and the
\* violation is recorded)
pop_back(S) ==
    IF Len(S.c0v) = 0 THEN [S EXCEPT !.M.fault = @ \cup {"pop_back"}]
    ELSE [S EXCEPT !.c0v = SubSeq(@, 1, Len(@) - 1)]

\* the do-while loop of marching, in the order of its statements: the trace
\* along the face (marching_loop), the split of the crossing halfedge
\* (marching_split), the new on-plane vertex and the face split towards the
\* previous one (marching_connect), and the choice of the next halfedge with
\* the loop condition (marching_advance).  fuel bounds the iterations;
\* running out of it is recorded as a walk that does not end.  exit records
\* the statement that left the loop: "face_loop" (the return inside the trace),
\* "same_vertex" (the break on prev_c0_vertex == current_c0_vertex),
\* "no_next_face" (the break on an invalid halfedge) or "closed" (the loop
\* condition: the walk is back at m_c0_vertices.front()).
RECURSIVE marching_loop(_, _, _, _, _)
marching_advance(S2, P, new_c0_vertex, nxt, fuel) ==
    IF nxt = 0 THEN pop_back([S2 EXCEPT !.exit = "no_next_face"])
    ELSE IF Len(S2.c0v) < 2 \/ new_c0_vertex # S2.c0v[1]
      THEN IF fuel = 0 THEN [S2 EXCEPT !.M.fault = @ \cup {"marching"}, !.exit = "unfinished"]
           ELSE marching_loop(S2, P, nxt, new_c0_vertex, fuel - 1)
    ELSE pop_back([S2 EXCEPT !.exit = "closed"])

marching_connect(S, P, cur, new_c0_vertex, fuel, M2) ==
    marching_advance([S EXCEPT !.M = M2, !.c0v = Append(@, new_c0_vertex),
                               !.c0 = new_c0_vertex, !.isc0 = @ \cup {new_c0_vertex}],
                     P, new_c0_vertex, skip_non_intersecting_faces(M2, P, cur), fuel)

marching_split(S, P, cur, prev_c0_vertex, fuel, M1) ==
    IF prev_c0_vertex = vertex_to(M1, cur)
      THEN pop_back([S EXCEPT !.M = M1, !.exit = "same_vertex"])
    ELSE marching_connect(S, P, cur, vertex_to(M1, cur), fuel,
            IF prev_c0_vertex # 0 /\ ~are_adjacent(M1, vertex_to(M1, cur), prev_c0_vertex)
              THEN split_face(M1, P, vertex_to(M1, cur), prev_c0_vertex, M1.hface[cur])
              ELSE M1)

marching_traced(t, P, current_c0_vertex, fuel) ==
    IF t.full THEN [t.S EXCEPT !.exit = "face_loop"]
    ELSE marching_split(t.S, P, t.cur, current_c0_vertex, fuel,
            IF classify_vertex(t.S.M, vertex_from(t.S.M, t.cur), P)
                 * classify_vertex(t.S.M, vertex_to(t.S.M, t.cur), P) = -1
              THEN split_halfedge(t.S.M, P, t.cur) ELSE t.S.M)

marching_loop(S, P, current_halfedge, current_c0_vertex, fuel) ==
    marching_traced(trace_face(S, P, current_halfedge, current_halfedge), P,
                    current_c0_vertex, fuel)

marching(S, P, start_halfedge) ==
    marching_loop(S, P, start_halfedge, 0, 2 * Len(S.M.hto) + 8)

\* the neighbours of v in circulator order
ring_targets(M, ring) == AsSeq([i \in 1..Len(ring) |-> vertex_to(M, ring[i])])

adjacent_vertices(M, v) == ring_targets(M, outgoing_halfedges(M, v))

\* a variant of unvisited_neighbors that does not stop at the vertices on the
\* plane (sensitivity analysis)
unvisited_neighbors_through(nb, isc0, visited) ==
    SelectSeq([i \in 1..Len(nb) |->
                  IF nb[i] \notin visited /\ \A j \in 1..(i - 1) : nb[j] # nb[i]
                    THEN nb[i] ELSE 0],
              LAMBDA u : u # 0)

\* the neighbours a pop of the stack pushes: those that are neither on the
\* plane nor visited, each once
unvisited_neighbors(nb, isc0, visited) ==
    SelectSeq([i \in 1..Len(nb) |->
                  IF nb[i] \notin isc0 /\ nb[i] \notin visited
                       /\ \A j \in 1..(i - 1) : nb[j] # nb[i]
                    THEN nb[i] ELSE 0],
              LAMBDA u : u # 0)

\* the stack loop of delete_c1_vertices: pop current_vertex, push, assert,
\* remove
RECURSIVE delete_stack(_, _, _, _, _)
delete_pop(M, P, isc0, rest, visited, current_vertex, push) ==
    delete_stack(remove_vertex(IF classify_vertex(M, current_vertex, P) = 1 THEN M
                               ELSE [M EXCEPT !.fault = @ \cup {"c1_assert"}],
                               current_vertex),
                 P, isc0, rest \o push, visited \cup {push[i] : i \in 1..Len(push)})

delete_stack(M, P, isc0, stack, visited) ==
    IF Len(stack) = 0 THEN M
    ELSE delete_pop(M, P, isc0, SubSeq(stack, 1, Len(stack) - 1), visited, stack[Len(stack)],
                    unvisited_neighbors(adjacent_vertices(M, stack[Len(stack)]), isc0, visited))

\* a variant of first_c1_vertex that takes the first neighbour off the plane
\* (sensitivity analysis)
first_c1_vertex_off_plane(M, P, nb) ==
    IF \A i \in 1..Len(nb) : classify_vertex(M, nb[i], P) = 0 THEN 0
    ELSE nb[CHOOSE i \in 1..Len(nb) :
                /\ classify_vertex(M, nb[i], P) # 0
                /\ \A j \in 1..(i - 1) : classify_vertex(M, nb[j], P) = 0]

\* the first neighbour in nb that lies in front of P, 0 when there is none
first_c1_vertex(M, P, nb) ==
    IF \A i \in 1..Len(nb) : classify_vertex(M, nb[i], P) # 1 THEN 0
    ELSE nb[CHOOSE i \in 1..Len(nb) :
                /\ classify_vertex(M, nb[i], P) = 1
                /\ \A j \in 1..(i - 1) : classify_vertex(M, nb[j], P) # 1]

delete_from(S, P, initial_c1_vertex) ==
    IF initial_c1_vertex = 0 THEN [M |-> S.M, proper_cut |-> FALSE]
    ELSE [M |-> delete_stack(S.M, P, S.isc0, <<initial_c1_vertex>>, {initial_c1_vertex}),
          proper_cut |-> TRUE]

\* a variant of delete_c1_vertices that removes nothing (sensitivity analysis)
delete_nothing(S, P) == [M |-> S.M, proper_cut |-> FALSE]

\* delete_c1_vertices
delete_c1_vertices(S, P) ==
    delete_from(S, P, IF S.c0 = 0 THEN 0
                      ELSE first_c1_vertex(S.M, P, adjacent_vertices(S.M, S.c0)))

\* fill_cut_hole
fill_from(M, h, P, original_face) ==
    IF h = 0 THEN [M EXCEPT !.fault = @ \cup {"add_edge"}]
    ELSE IF M.hface[h] # 0 /\ M.hface[opposite(h)] # 0
      THEN [face_fill(M, opposite(h), P, original_face) EXCEPT !.fault = @ \cup {"fill_assert"}]
    ELSE face_fill(M, IF M.hface[h] = 0 THEN h ELSE opposite(h), P, original_face)

fill_cut_hole(M, c0v, P, original_face) ==
    IF Cardinality(LiveVertices(M)) < 3 \/ Len(c0v) < 3 THEN M
    ELSE fill_from(M, find_halfedge(M, c0v[1], c0v[2]), P, original_face)

(***************************************************************************)
(* The bounding volume (kdop.hh).  For K = 3 it is the integer box         *)
(* k_dop<3, int>; for K = 8, 9, 12 the template k_dop<K, double>, whose    *)
(* distances are kept as fractions <<numerator, denominator>>.             *)
(***************************************************************************)
is_removed(M, v) == M.vout[v] < 0

\* tg::ifloor and tg::iceil of the fraction n / d, d > 0
ifloor(n, d) == n \div d

iceil(n, d) == -((-n) \div d)

frac_less(p, q) == p[1] * q[2] < q[1] * p[2]

\* the first index of seq whose key is smallest (a scan with strict <)
first_min(keys) ==
    CHOOSE i \in 1..Len(keys) :
        /\ \A j \in 1..Len(keys) : keys[i] <= keys[j]
        /\ \A j \in 1..(i - 1) : keys[j] > keys[i]

first_max(keys) == first_min([i \in 1..Len(keys) |-> -keys[i]])

\* the slack k_dop<3, int>::initialize_from_positions adds on every side
AabbSlack == 3

\* k_dop<3, int>::initialize_from_positions over the cube's eight vertices
initialize_3dop(M) ==
    LET coord(d) == [v \in 1..8 |-> M.dpos[v][d]]
    IN  [k |-> 3,
         aabb |-> [min |-> [d \in 1..3 |-> coord(d)[first_min(coord(d))] - AabbSlack],
                   max |-> [d \in 1..3 |-> coord(d)[first_max(coord(d))] + AabbSlack]],
         vertices_min |-> [d \in 1..3 |-> first_min(coord(d))],
         vertices_max |-> [d \in 1..3 |-> first_max(coord(d))]]

\* k_dop<3, int>::update
update_3dop(B, M, cut_vertices) ==
    LET min_needs_update == [i \in 1..3 |-> is_removed(M, B.vertices_min[i])]
        max_needs_update == [i \in 1..3 |-> is_removed(M, B.vertices_max[i])]
        any_needs_update == \E i \in 1..3 : min_needs_update[i] \/ max_needs_update[i]
        min_val(d) == [j \in 1..Len(cut_vertices) |->
                          ifloor(M.dpos[cut_vertices[j]][d] - M.dpos[cut_vertices[j]][4],
                                 M.dpos[cut_vertices[j]][4])]
        max_val(d) == [j \in 1..Len(cut_vertices) |->
                          iceil(M.dpos[cut_vertices[j]][d] + M.dpos[cut_vertices[j]][4],
                                M.dpos[cut_vertices[j]][4])]
    IN  IF Len(cut_vertices) = 0 \/ ~any_needs_update THEN B
        ELSE [B EXCEPT
                !.aabb.min = [d \in 1..3 |->
                    IF min_needs_update[d]
                      THEN Max2(@[d], min_val(d)[first_min(min_val(d))]) ELSE @[d]],
                !.aabb.max = [d \in 1..3 |->
                    IF max_needs_update[d]
                      THEN Min2(@[d], max_val(d)[first_max(max_val(d))]) ELSE @[d]],
                !.vertices_min = [d \in 1..3 |->
                    IF min_needs_update[d] THEN cut_vertices[first_min(min_val(d))] ELSE @[d]],
                !.vertices_max = [d \in 1..3 |->
                    IF max_needs_update[d] THEN cut_vertices[first_max(max_val(d))] ELSE @[d]]]

\* a variant of classify_aabb that classifies the centre of the box only
\* (sensitivity analysis)
classify_aabb_center(bb, pl) ==
    Sign(2 * pl.d + (bb.min[1] + bb.max[1]) * pl.a + (bb.min[2] + bb.max[2]) * pl.b
           + (bb.min[3] + bb.max[3]) * pl.c)

\* ipg::classify(iaabb3, plane)
classify_aabb(bb, pl) ==
    LET c == [i \in 1..3 |-> bb.min[i] + bb.max[i]]
        s == [i \in 1..3 |-> bb.max[i] - bb.min[i]]
        d == 2 * pl.d + c[1] * pl.a + c[2] * pl.b + c[3] * pl.c
        hn == s[1] * Abs(pl.a) + s[2] * Abs(pl.b) + s[3] * Abs(pl.c)
    IN  IF hn + d < 0 THEN -1 ELSE IF hn - d < 0 THEN 1 ELSE 0

\* k_dop<K, double>::k_dop: the axes, of which a K-DOP uses the first K
KdopAxes ==
    << <<1, 0, 0>>, <<0, 1, 0>>, <<0, 0, 1>>, <<1, 1, 0>>, <<1, 0, 1>>, <<0, 1, 1>>,
       <<1, -1, 0>>, <<1, 0, -1>>, <<0, 1, -1>>, <<1, 1, -1>>, <<1, -1, 1>>, <<-1, 1, 1>> >>

\* get_distance: dot(point, axis) of the vertex position, as a fraction
get_distance(M, axis, v) ==
    << axis[1] * M.dpos[v][1] + axis[2] * M.dpos[v][2] + axis[3] * M.dpos[v][3], M.dpos[v][4] >>

\* the first index of a sequence of fractions whose value is smallest
first_frac_min(fr) ==
    CHOOSE i \in 1..Len(fr) :
        /\ \A j \in 1..Len(fr) : ~frac_less(fr[j], fr[i])
        /\ \A j \in 1..(i - 1) : frac_less(fr[i], fr[j])

first_frac_max(fr) == first_frac_min([i \in 1..Len(fr) |-> <<-fr[i][1], fr[i][2]>>])

\* k_dop<K, double>::initialize_from_positions over the cube's eight vertices
initialize_kdop(M, K) ==
    LET dist(i) == [v \in 1..8 |-> get_distance(M, KdopAxes[i], v)]
        lo(i) == dist(i)[first_frac_min(dist(i))]
        hi(i) == dist(i)[first_frac_max(dist(i))]
    IN  [k |-> K,
         distance_min |-> [i \in 1..K |-> <<lo(i)[1] - lo(i)[2], lo(i)[2]>>],
         distance_max |-> [i \in 1..K |-> <<hi(i)[1] + hi(i)[2], hi(i)[2]>>],
         vertices_min |-> [i \in 1..K |-> first_frac_min(dist(i))],
         vertices_max |-> [i \in 1..K |-> first_frac_max(dist(i))]]

\* k_dop<K, double>::update: only the three coordinate axes are refreshed; a
\* bound whose witness was removed restarts from cut_vertices[0], moves to a
\* strictly smaller (larger) cut vertex, and is widened by one only when the
\* witness is still a removed vertex afterwards
update_kdop(B, M, cut_vertices) ==
    LET p(j, d) == << M.dpos[cut_vertices[j]][d], M.dpos[cut_vertices[j]][4] >>
        coords(d) == [j \in 1..Len(cut_vertices) |-> p(j, d)]
        min_needs_update == [i \in 1..3 |-> is_removed(M, B.vertices_min[i])]
        max_needs_update == [i \in 1..3 |-> is_removed(M, B.vertices_max[i])]
        jmin(d) == first_frac_min(coords(d))
        jmax(d) == first_frac_max(coords(d))
        new_vmin(d) == IF min_needs_update[d] /\ jmin(d) # 1
                         THEN cut_vertices[jmin(d)] ELSE B.vertices_min[d]
        new_vmax(d) == IF max_needs_update[d] /\ jmax(d) # 1
                         THEN cut_vertices[jmax(d)] ELSE B.vertices_max[d]
        widen_min(d) == IF is_removed(M, new_vmin(d)) THEN 1 ELSE 0
        widen_max(d) == IF is_removed(M, new_vmax(d)) THEN 1 ELSE 0
    IN  [B EXCEPT
           !.distance_min = [i \in 1..B.k |->
               IF i > 3 THEN @[i]
               ELSE LET base == IF min_needs_update[i] THEN coords(i)[jmin(i)] ELSE @[i]
                    IN  <<base[1] - widen_min(i) * base[2], base[2]>>],
           !.distance_max = [i \in 1..B.k |->
               IF i > 3 THEN @[i]
               ELSE LET base == IF max_needs_update[i] THEN coords(i)[jmax(i)] ELSE @[i]
                    IN  <<base[1] + widen_max(i) * base[2], base[2]>>],
           !.vertices_min = [i \in 1..B.k |-> IF i > 3 THEN @[i] ELSE new_vmin(i)],
           !.vertices_max = [i \in 1..B.k |-> IF i > 3 THEN @[i] ELSE new_vmax(i)]]

\* the lambda to_ipg_plane of intersects_bounding_volume
to_ipg_plane(B, idx, is_neg) ==
    LET axis == KdopAxes[idx]
    IN  IF is_neg
          THEN Plane(-axis[1], -axis[2], -axis[3],
                     ifloor(B.distance_min[idx][1], B.distance_min[idx][2]))
          ELSE Plane(axis[1], axis[2], axis[3],
                     iceil(B.distance_max[idx][1], B.distance_max[idx][2]))

\* the sequence that lists seq[i][1], seq[i][2] for i = 1, 2, ...
RECURSIVE flatten_pairs(_)
flatten_pairs(seq) ==
    IF Len(seq) = 0 THEN <<>> ELSE <<seq[1][1], seq[1][2]>> \o flatten_pairs(Tail(seq))

\* the axis that maximizes abs(dot) (the first such), its orientation, and
\* the planes of the other axes but the last, as the template
\* intersects_bounding_volume(kdop) builds them for the cutting plane P
axis_dot(i, P) == KdopAxes[i][1] * P.a + KdopAxes[i][2] * P.b + KdopAxes[i][3] * P.c

kdop_planes_around(B, P, max_idx) ==
    [max_dot_plane |-> to_ipg_plane(B, max_idx, ~(axis_dot(max_idx, P) > -axis_dot(max_idx, P))),
     planes |-> flatten_pairs(
                   SelectSeq([i \in 1..(B.k - 1) |->
                                 <<to_ipg_plane(B, i, TRUE), to_ipg_plane(B, i, FALSE), i>>],
                             LAMBDA pr : pr[3] # max_idx))]

kdop_corner_planes(B, P) ==
    kdop_planes_around(B, P, first_min([i \in 1..B.k |-> -Abs(axis_dot(i, P))]))

\* the corner candidates: plane_a x plane_b x max_dot_plane over all pairs
corner_candidates(planes, max_dot_plane) ==
    AsSeq([q \in 1..(Len(planes) * Len(planes)) |->
              intersect_ppp(planes[((q - 1) \div Len(planes)) + 1],
                            planes[((q - 1) % Len(planes)) + 1], max_dot_plane)])

\* the real corners: the candidates that no plane has in front of it
real_corners_of(planes, candidates) ==
    SelectSeq(candidates,
              LAMBDA cand_pt : \A j \in 1..Len(planes) : classify(cand_pt, planes[j]) <= 0)

kdop_real_corners(B, P) ==
    real_corners_of(kdop_corner_planes(B, P).planes,
                    corner_candidates(kdop_corner_planes(B, P).planes,
                                      kdop_corner_planes(B, P).max_dot_plane))

any_corner_in_front(real_corners, P) ==
    \E j \in 1..Len(real_corners) : classify(real_corners[j], P) >= 0

intersects_kdop(B, P) == any_corner_in_front(kdop_real_corners(B, P), P)

\* intersects_bounding_volume
intersects_bounding_volume(B, P) ==
    IF B.k = 3 THEN classify_aabb(B.aabb, P) >= 0 ELSE intersects_kdop(B, P)

\* initialize_bounding_volume
initialize_bounding_volume(M, K) ==
    IF K = 3 THEN initialize_3dop(M) ELSE initialize_kdop(M, K)

\* update_bounding_volume; the template's update reads cut_vertices[0], which
\* does not exist for an empty list
update_bounding_volume(B, M, cut_vertices) ==
    IF B.k = 3 THEN update_3dop(B, M, cut_vertices)
    ELSE IF Len(cut_vertices) = 0 THEN B
    ELSE update_kdop(B, M, cut_vertices)

\* m_mesh.vertices().last(): the live vertex with the largest index, 0 when
\* the mesh has no vertex
last_vertex(M) ==
    IF LiveVertices(M) = {} THEN 0
    ELSE CHOOSE v \in LiveVertices(M) : \A u \in LiveVertices(M) : u <= v

\* one iteration of the loop of compute_mesh_kernel after the feasibility
\* poll, for the cutting plane P that came from input face original_face.
\* res is "culled" (bounding-volume test), "inside" (no crossing, start vertex
\* behind P), "empty" (no crossing, nothing on P: the kernel is empty) or
\* "cut"; c0v and c0 are m_c0_vertices and m_c0_vertex as the cut left them
\* before they were cleared, exit the way marching ended ("none": not entered).
\* The statements in order: edge_descent (cut_iteration), marching
\* (cut_descended), delete_c1_vertices (cut_marched), fill_cut_hole
\* (cut_deleted), update_bounding_volume (cut_filled).
NoCut(M, B, res) ==
    [M |-> M, B |-> B, res |-> res, c0v |-> <<>>, c0 |-> 0, proper_cut |-> FALSE,
     exit |-> "none"]

cut_filled(B, use_bb_culling, c0v, proper_cut, M2) ==
    [M |-> M2,
     B |-> IF use_bb_culling /\ proper_cut THEN update_bounding_volume(B, M2, c0v) ELSE B,
     res |-> "cut", c0v |-> c0v, c0 |-> 0, proper_cut |-> proper_cut, exit |-> "none"]

\* a variant of cut_deleted that fills the cut whether or not a vertex was
\* deleted (sensitivity analysis)
cut_deleted_fill(B, use_bb_culling, P, original_face, c0v, del) ==
    cut_filled(B, use_bb_culling, c0v, del.proper_cut,
               fill_cut_hole(del.M, c0v, P, original_face))

cut_deleted(B, use_bb_culling, P, original_face, c0v, del) ==
    cut_filled(B, use_bb_culling, c0v, del.proper_cut,
               IF del.proper_cut THEN fill_cut_hole(del.M, c0v, P, original_face) ELSE del.M)

cut_marched(B, use_bb_culling, P, original_face, S) ==
    [cut_deleted(B, use_bb_culling, P, original_face, S.c0v, delete_c1_vertices(S, P))
       EXCEPT !.c0 = S.c0, !.exit = S.exit]

\* a variant of cut_descended that takes a plane without a crossing for one
\* the polyhedron is behind of (sensitivity analysis)
cut_descended_inside(M, B, use_bb_culling, P, original_face, start_vertex, ed) ==
    IF ed.he = 0 THEN NoCut(M, B, "inside")
    ELSE cut_marched(B, use_bb_culling, P, original_face,
                     marching([M |-> M, c0v |-> <<>>, c0 |-> ed.c0, isc0 |-> ed.isc0, exit |-> "none"],
                              P, ed.he))

cut_descended(M, B, use_bb_culling, P, original_face, start_vertex, ed) ==
    IF ed.he = 0 /\ classify_vertex(M, start_vertex, P) < 0 THEN NoCut(M, B, "inside")
    ELSE IF ed.he = 0 /\ ed.c0 = 0 THEN NoCut(M, B, "empty")
    ELSE IF ed.he = 0
      THEN cut_marched(B, use_bb_culling, P, original_face,
                       [M |-> M, c0v |-> <<>>, c0 |-> ed.c0, isc0 |-> ed.isc0, exit |-> "none"])
    ELSE cut_marched(B, use_bb_culling, P, original_face,
                     marching([M |-> M, c0v |-> <<>>, c0 |-> ed.c0, isc0 |-> ed.isc0, exit |-> "none"],
                              P, ed.he))

cut_iteration(M, B, use_bb_culling, P, original_face) ==
    IF use_bb_culling /\ ~intersects_bounding_volume(B, P) THEN NoCut(M, B, "culled")
    ELSE IF last_vertex(M) = 0
      THEN NoCut([M EXCEPT !.fault = @ \cup {"last_vertex"}], B, "empty")
    ELSE cut_descended(M, B, use_bb_culling, P, original_face, last_vertex(M),
                       edge_descent(M, P, last_vertex(M)))

(***************************************************************************)
(* compute_kernel on a fresh KernelPlaneCut object.  The constructing      *)
(* thread runs compute_kernel_begin, init_supporting, then cut_loop once   *)
(* per cutting plane and loop_exit; the worker dispatched by std::async    *)
(* runs set_planes, solve_enter and solve_3D_iteration in between.         *)
(***************************************************************************)
Options(uset, cull, k, par) ==
    [use_unordered_set |-> uset, use_bb_culling |-> cull, kdop_k |-> k,
     parallel_exact_lp |-> par]

\* kernel_options as default-constructed
DefaultOptions == Options(FALSE, TRUE, 3, TRUE)

MeshInput(name, mesh, options) ==
    [kind |-> "mesh", name |-> name, mesh |-> mesh, options |-> options]

\* the calls analysed
Scenarios ==
    { MeshInput("Tetrahedron", Tetrahedron, DefaultOptions),
      MeshInput("DentedTetrahedron", DentedTetrahedron, DefaultOptions),
      MeshInput("DentedTetrahedron", DentedTetrahedron, Options(TRUE, FALSE, 3, FALSE)),
      MeshInput("CollapsedTetrahedron", CollapsedTetrahedron, DefaultOptions),
      MeshInput("PocketTetrahedron", PocketTetrahedron, DefaultOptions),
      MeshInput("FlatTetrahedron", FlatTetrahedron, DefaultOptions),
      MeshInput("PinwheelPrism", PinwheelPrism, DefaultOptions),
      MeshInput("PinwheelPrism", PinwheelPrism, Options(TRUE, TRUE, 8, FALSE)),
      MeshInput("SPrism", SPrism, Options(FALSE, TRUE, 9, TRUE)),
      MeshInput("SkewPinwheelPrism", SkewPinwheelPrism, DefaultOptions),
      MeshInput("LPrism", LPrism, DefaultOptions),
      MeshInput("LPrism", LPrism, Options(TRUE, TRUE, 8, FALSE)),
      MeshInput("LPrism", LPrism, Options(FALSE, TRUE, 12, FALSE)),
      MeshInput("NotchedPrism", NotchedPrism, Options(FALSE, TRUE, 3, FALSE)),
      MeshInput("NotchedPrism", NotchedPrism, Options(TRUE, TRUE, 3, FALSE)),
      MeshInput("SliverTetrahedron", SliverTetrahedron, DefaultOptions),
      MeshInput("SliverTetrahedron", SliverTetrahedron, Options(TRUE, FALSE, 3, FALSE)),
      MeshInput("SlantedPinwheelPrism", SlantedPinwheelPrism, Options(FALSE, TRUE, 3, FALSE)),
      MeshInput("OpenDentedTetrahedron", OpenDentedTetrahedron, Options(TRUE, TRUE, 3, TRUE)),
      MeshInput("OpenDentedTetrahedron", OpenDentedTetrahedron, Options(FALSE, TRUE, 3, FALSE)) }

\* a default-constructed pm::Mesh with its attributes
EmptyMesh ==
    [vout |-> <<>>, hto |-> <<>>, hnext |-> <<>>, hprev |-> <<>>, hface |-> <<>>,
     fhe |-> <<>>, pos |-> <<>>, dpos |-> <<>>, line |-> <<>>, splane |-> <<>>,
     inface |-> <<>>, fault |-> {}]

\* the members of KernelPlaneCut as declared; pc is the position of the
\* constructing thread and i the index of its loop over the cutting planes
FreshKpc ==
    [pc |-> "start", m_has_kernel |-> FALSE, m_input_is_convex |-> TRUE,
     m_cutting_planes |-> <<>>, m_face_of_plane |-> <<>>, m_number_concave_planes |-> 0,
     m_has_queried_future |-> FALSE, m_is_infeasible |-> FALSE, lp_early_out |-> FALSE,
     i |-> 0]

\* reset()
reset(k) ==
    [k EXCEPT !.m_cutting_planes = <<>>, !.m_face_of_plane = <<>>, !.m_has_kernel = FALSE,
              !.m_input_is_convex = TRUE, !.m_number_concave_planes = 0,
              !.lp_early_out = FALSE, !.m_has_queried_future = FALSE,
              !.m_is_infeasible = FALSE]

\* a variant of finish_mesh that never clears (sensitivity analysis)
finish_mesh_keep(M, has_kernel) == M

\* the end of compute_kernel: m_mesh.clear() unless a kernel was found
finish_mesh(M, has_kernel) == IF has_kernel THEN M ELSE EmptyMesh

\* a variant of is_infeasible that fetches the result on every poll without
\* probing (sensitivity analysis)
is_infeasible_unguarded(k, w, h, parallel_exact_lp) ==
    [kpc |-> [k EXCEPT !.m_is_infeasible = (w.ret = "infeasible"),
                       !.m_has_queried_future = TRUE],
     hist |-> [h EXCEPT !.gets = @ + 1,
                        !.blocking_gets = IF w.pc = "done" THEN @ ELSE @ + 1,
                        !.get_after_stop = @ \/ h.stop_calls > 0],
     result |-> (w.ret = "infeasible")]

\* is_infeasible(): wait_for(0) reports ready once the worker has returned
is_infeasible(k, w, h, parallel_exact_lp) ==
    IF ~parallel_exact_lp THEN [kpc |-> k, hist |-> h, result |-> FALSE]
    ELSE IF k.m_has_queried_future THEN [kpc |-> k, hist |-> h, result |-> k.m_is_infeasible]
    ELSE IF w.pc = "done"
      THEN [kpc |-> [k EXCEPT !.m_is_infeasible = (w.ret = "infeasible"),
                              !.m_has_queried_future = TRUE],
            hist |-> [h EXCEPT !.gets = @ + 1,
                               !.get_after_stop = @ \/ h.stop_calls > 0],
            result |-> (w.ret = "infeasible")]
    ELSE [kpc |-> k, hist |-> h, result |-> k.m_is_infeasible]

\* compute_kernel up to the dispatch of the worker: reset, init_input_planes,
\* init_edge_state, then either the convex short-circuit or the cutting-plane
\* list and std::async.  std::async starts the new thread before the
\* assignment to m_exact_seidel_solver_result waits for the worker of an
\* earlier call: if that one is still running, two threads are in
\* set_planes and solve of the one solver object ("racing").  With a boundary edge the flood fill indexes its
\* union-find with -1: the call then either aborts or goes on with whatever
\* face the lookup produced (oob_face; 0 stands for the abort).
init_cutting_planes(m, o, planes, states, oob_face) ==
    IF o.use_unordered_set THEN init_cutting_planes_uset(m, planes, states)
    ELSE init_cutting_planes_flood_fill(m, planes, states, oob_face)

dispatch(k0, o, planes, L) ==
    /\ kpc' = [k0 EXCEPT
                 !.m_input_is_convex = FALSE,
                 !.m_face_of_plane = L.m_face_of_plane,
                 !.m_cutting_planes =
                     AsSeq([i \in 1..Len(L.m_face_of_plane) |-> planes[L.m_face_of_plane[i]]]),
                 !.m_number_concave_planes = L.m_number_concave_planes,
                 !.pc = "init_supporting_structure"]
    /\ worker' = IF ~o.parallel_exact_lp THEN worker
                 ELSE IF worker.pc \in {"idle", "done"}
                   THEN [IdleWorker EXCEPT !.pc = "set_planes", !.call = hist.calls]
                 ELSE [IdleWorker EXCEPT !.pc = "racing", !.call = hist.calls]
    /\ hist' = [hist EXCEPT !.list_built = TRUE, !.dispatched = o.parallel_exact_lp]

classified(k0, m, o, planes, states) ==
    IF all_convex_or_planar(states)
      THEN /\ kpc' = [k0 EXCEPT !.m_has_kernel = TRUE, !.m_input_is_convex = TRUE,
                                !.pc = "returned"]
           /\ UNCHANGED <<worker, hist>>
    ELSE \E oob_face \in (IF o.use_unordered_set THEN {1}
                          ELSE OobFaces(m, states)
                                 \cup (IF \E i \in 1..Len(states) : states[i] = "boundary"
                                         THEN {0} ELSE {})) :
           IF oob_face = 0
             THEN /\ kpc' = [k0 EXCEPT !.m_input_is_convex = FALSE, !.pc = "aborted"]
                  /\ UNCHANGED <<worker, hist>>
           ELSE dispatch(k0, o, planes, init_cutting_planes(m, o, planes, states, oob_face))

with_planes(k0, m, o, planes) == classified(k0, m, o, planes, init_edge_state(m, planes))

compute_kernel_begin ==
    /\ input.kind = "mesh"
    /\ kpc.pc = "start"
    /\ with_planes(reset(kpc), input.mesh, input.options,
                   AsSeq(init_input_planes(input.mesh, input.options.use_unordered_set)))
    /\ UNCHANGED <<input, cand, bv, solver>>

\* init_supporting_structure with initialize_bounding_volume, and the entry
\* of compute_mesh_kernel
init_supporting ==
    /\ kpc.pc = "init_supporting_structure"
    /\ cand' = init_supporting_structure(input.mesh.pos)
    /\ bv' = IF input.options.use_bb_culling
               THEN initialize_bounding_volume(cand', input.options.kdop_k) ELSE NoBv
    /\ kpc' = [kpc EXCEPT !.pc = "loop", !.i = 0]
    /\ hist' = [hist EXCEPT !.cube_built = TRUE, !.loop_entered = TRUE]
    /\ UNCHANGED <<input, solver, worker>>

\* history of one processed plane P: the vertices of the candidate M that lay
\* on P (zero) and in front of it (pos) before the cut, whether the ones on P
\* were exactly the vertices of one face (on_face), and what the cut r did:
\* same when no vertex, halfedge or face was added or removed, identical when
\* the mesh with its attributes is as before, closed when M was a closed
\* surface with faces, no_crossing when edge_descent ran and returned an
\* invalid halfedge, v0_class the classification of the start vertex, bv_same
\* when the bounding volume is as before, removed the vertices the cut
\* removed, pos_left the vertices in front of P it left, c1_assert when the
\* assertion of delete_c1_vertices failed in it, zero_left the vertices on P
\* it left, c0_joined when each entry of m_c0_vertices has an edge to the next
\* one (the last to the first), closed_left when it left a closed surface,
\* fill_fault when add_or_get or the assertion of fill_cut_hole failed in it,
\* filled when it added a face that carries P and an input face
cut_record(M, B, P, r) ==
    [res |-> r.res,
     zero |-> {v \in LiveVertices(M) : classify_vertex(M, v, P) = 0},
     pos |-> {v \in LiveVertices(M) : classify_vertex(M, v, P) = 1},
     on_face |-> \E f \in LiveFaces(M) :
                    {face_vertices(M, f)[k] : k \in 1..Len(face_vertices(M, f))}
                      = {v \in LiveVertices(M) : classify_vertex(M, v, P) = 0},
     same |-> /\ LiveVertices(r.M) = LiveVertices(M)
              /\ LiveHalfedges(r.M) = LiveHalfedges(M)
              /\ LiveFaces(r.M) = LiveFaces(M),
     identical |-> r.M = M,
     proper_cut |-> r.proper_cut, c0v |-> r.c0v, c0 |-> r.c0, exit |-> r.exit,
     closed |-> LiveFaces(M) # {} /\ is_closed_mesh(M),
     no_crossing |-> /\ r.res # "culled" /\ last_vertex(M) # 0
                     /\ edge_descent(M, P, last_vertex(M)).he = 0,
     v0_class |-> IF last_vertex(M) = 0 THEN -1 ELSE classify_vertex(M, last_vertex(M), P),
     bv_same |-> r.B = B,
     removed |-> LiveVertices(M) \ LiveVertices(r.M),
     pos_left |-> {v \in LiveVertices(r.M) : classify_vertex(r.M, v, P) = 1},
     c1_assert |-> "c1_assert" \in r.M.fault /\ "c1_assert" \notin M.fault,
     zero_left |-> {v \in LiveVertices(r.M) : classify_vertex(r.M, v, P) = 0},
     c0_joined |-> \A i \in 1..Len(r.c0v) :
                      find_halfedge(r.M, r.c0v[i], r.c0v[(i % Len(r.c0v)) + 1]) # 0,
     closed_left |-> is_closed_mesh(r.M),
     fill_fault |-> {"add_edge", "fill_assert"} \cap (r.M.fault \ M.fault) # {},
     filled |-> \E f \in LiveFaces(r.M) \ LiveFaces(M) :
                   r.M.splane[f] = P /\ r.M.inface[f] # 0]

\* one iteration of the loop of compute_mesh_kernel: the feasibility poll q,
\* then the cut r; both early returns run on into the end of compute_kernel
cut_loop_result(q, r) ==
    IF q.result
      THEN /\ kpc' = [q.kpc EXCEPT !.lp_early_out = TRUE, !.m_has_kernel = FALSE,
                                   !.pc = "returned"]
           /\ cand' = finish_mesh(cand, FALSE)
           /\ bv' = bv
           /\ hist' = q.hist
    ELSE IF r.res = "empty"
      THEN /\ kpc' = [q.kpc EXCEPT !.m_has_kernel = FALSE, !.pc = "returned"]
           /\ cand' = finish_mesh(r.M, FALSE)
           /\ bv' = r.B
           /\ hist' = [q.hist EXCEPT !.iterations = @ + 1,
                                     !.last = cut_record(cand, bv, kpc.m_cutting_planes[kpc.i + 1], r)]
    ELSE /\ kpc' = [q.kpc EXCEPT !.i = @ + 1]
         /\ cand' = r.M
         /\ bv' = r.B
         /\ hist' = [q.hist EXCEPT !.iterations = @ + 1,
                                   !.culled = IF r.res = "culled" THEN @ + 1 ELSE @,
                                   !.cuts = IF r.proper_cut THEN @ + 1 ELSE @,
                                   !.last = cut_record(cand, bv, kpc.m_cutting_planes[kpc.i + 1], r)]

cut_loop ==
    /\ kpc.pc = "loop"
    /\ kpc.i < Len(kpc.m_cutting_planes)
    /\ cut_loop_result(is_infeasible(kpc, worker, hist, input.options.parallel_exact_lp),
                       cut_iteration(cand, bv, input.options.use_bb_culling,
                                     kpc.m_cutting_planes[kpc.i + 1],
                                     kpc.m_face_of_plane[kpc.i + 1]))
    /\ UNCHANGED <<input, solver, worker>>

\* the end of compute_mesh_kernel after the last plane: stop(), m_has_kernel,
\* and the end of compute_kernel
loop_exit ==
    /\ kpc.pc = "loop"
    /\ kpc.i >= Len(kpc.m_cutting_planes)
    /\ solver' = [solver EXCEPT !.m_should_stop = TRUE]
    /\ hist' = [hist EXCEPT !.stop_calls = @ + 1]
    /\ LET has_kernel == LiveVertices(cand) # {}
       IN  /\ kpc' = [kpc EXCEPT !.m_has_kernel = has_kernel, !.pc = "returned"]
           /\ cand' = finish_mesh(cand, has_kernel)
    /\ UNCHANGED <<input, bv, worker>>

Init ==
    /\ input \in Scenarios
    /\ kpc = FreshKpc
    /\ cand = EmptyMesh
    /\ bv = NoBv
    /\ solver \in {FreshSolver(b) : b \in BOOLEAN}
    /\ worker = IdleWorker
    /\ hist = NoHist

Next ==
    \/ compute_kernel_begin
    \/ init_supporting
    \/ cut_loop
    \/ loop_exit
    \/ set_planes(kpc.m_cutting_planes)
    \/ solve_enter
    \/ solve_3D_iteration

Spec == Init /\ [][Next]_vars

(***************************************************************************)
(* Repeated calls of compute_kernel on one KernelPlaneCut object, as        *)
(* KernelApp makes them on its member m_plane_cut: the members of the      *)
(* object, the solver and a worker that has not returned yet are carried   *)
(* over into the next call.                                                *)
(***************************************************************************)
\* the number of calls made on the object
MaxCalls == 2

RepeatFirstCalls ==
    { MeshInput("DentedTetrahedron", DentedTetrahedron, DefaultOptions),
      MeshInput("SkewPinwheelPrism", SkewPinwheelPrism, DefaultOptions) }

RepeatNextCalls ==
    { MeshInput("Tetrahedron", Tetrahedron, DefaultOptions),
      MeshInput("DentedTetrahedron", DentedTetrahedron, DefaultOptions),
      MeshInput("DentedTetrahedron", DentedTetrahedron, Options(TRUE, FALSE, 3, FALSE)) }

\* the front end loads the next mesh and calls compute_kernel again
run_batch_next ==
    /\ input.kind = "mesh"
    /\ kpc.pc = "returned"
    /\ hist.calls + 1 < MaxCalls
    /\ input' \in RepeatNextCalls
    /\ kpc' = [kpc EXCEPT !.pc = "start"]
    /\ hist' = [NoHist EXCEPT !.calls = hist.calls + 1]
    /\ UNCHANGED <<cand, bv, solver, worker>>

\* the worker of an earlier call copies m_cutting_planes, which it holds by
\* reference through the captured this, after a later call has cleared and
\* rebuilt the list: the unsynchronised read can see any part of it
set_planes_stale ==
    /\ worker.call < hist.calls
    /\ kpc.pc # "start"
    /\ \E n \in 0..(Len(kpc.m_cutting_planes) - 1) :
         set_planes(SubSeq(kpc.m_cutting_planes, 1, n))

\* two workers on the one solver object: the outcome of the unsynchronised
\* accesses to its members is any result, any stop flag, or a crash
racing_workers ==
    /\ worker.pc = "racing"
    /\ \/ /\ \E ret \in {"has_solution", "infeasible"} :
               worker' = [worker EXCEPT !.pc = "done", !.ret = ret]
          /\ \E b \in BOOLEAN : solver' = [solver EXCEPT !.m_should_stop = b]
          /\ UNCHANGED kpc
       \/ /\ kpc' = [kpc EXCEPT !.pc = "aborted"]
          /\ UNCHANGED <<solver, worker>>
    /\ UNCHANGED <<input, cand, bv, hist>>

InitRepeat ==
    /\ input \in RepeatFirstCalls
    /\ kpc = FreshKpc
    /\ cand = EmptyMesh
    /\ bv = NoBv
    /\ solver \in {FreshSolver(b) : b \in BOOLEAN}
    /\ worker = IdleWorker
    /\ hist = NoHist

NextRepeat ==
    \/ Next
    \/ run_batch_next
    \/ set_planes_stale
    \/ racing_workers

SpecRepeat == InitRepeat /\ [][NextRepeat]_vars

(***************************************************************************)
(* Properties of compute_kernel.  The call has returned when kpc.pc is     *)
(* "returned"; has_kernel() is kpc.m_has_kernel, input_is_convex() is      *)
(* kpc.m_input_is_convex and mesh() is cand.                               *)
(***************************************************************************)
returned == kpc.pc = "returned"

\* the corners of the integer box
BoxCorners(bb) ==
    { <<x, y, z>> : x \in {bb.min[1], bb.max[1]}, y \in {bb.min[2], bb.max[2]},
                    z \in {bb.min[3], bb.max[3]} }

\* every vertex of M classifies <= 0 against every plane of the list
behind_all(M, planes) ==
    \A v \in LiveVertices(M) : \A i \in 1..Len(planes) : classify(M.pos[v], planes[i]) <= 0

\* C1: after a call that ran the cutting loop on a non-convex input and
\* ended with has_kernel() = true, every vertex of the returned mesh
\* classifies <= 0 against the supporting plane of every returned face and
\* against every plane of the cutting-plane list, culled planes included.
C1_VerticesBehindAllPlanes ==
    (returned /\ hist.loop_entered /\ ~kpc.m_input_is_convex /\ kpc.m_has_kernel)
      => /\ \A v \in LiveVertices(cand) : \A f \in LiveFaces(cand) :
                classify(cand.pos[v], cand.splane[f]) <= 0
         /\ behind_all(cand, kpc.m_cutting_planes)

\* a call that returned a kernel with faces after the bounding-volume test
\* had skipped a plane
C1_Witness ==
    /\ returned /\ hist.loop_entered /\ kpc.m_has_kernel
    /\ LiveFaces(cand) # {}
    /\ hist.iterations = Len(kpc.m_cutting_planes)
    /\ hist.culled > 0

\* C2: for an input that satisfies the input contract and is not
\* short-circuited as convex, the call ends with has_kernel() = true exactly
\* when solve(), run to completion on the same cutting-plane list without
\* cancellation, returns has_solution.
C2_KernelIffFeasible ==
    (returned /\ hist.loop_entered /\ ~has_boundary_edge(input.mesh))
      => (kpc.m_has_kernel <=> solve_complete(kpc.m_cutting_planes).state = "has_solution")

\* a call that cut its way to an empty candidate while the worker was still
\* running, and one that cut all planes and kept a kernel
C2_Witness ==
    /\ returned /\ hist.loop_entered /\ ~has_boundary_edge(input.mesh)
    /\ ~kpc.m_has_kernel /\ ~kpc.lp_early_out /\ hist.cuts > 0
    /\ worker.pc # "done"

\* C4: if every edge of the input classifies convex or planar, the call
\* returns with has_kernel() = true and input_is_convex() = true, without a
\* cutting-plane list, without a worker and without a cut; otherwise it
\* returns with input_is_convex() = false after running the cutting loop.
C4_ConvexShortCircuit ==
    returned =>
      IF \A i \in 1..Len(InputEdges(input.mesh)) :
            compute_edge_classification(
                input.mesh, init_input_planes(input.mesh, input.options.use_unordered_set),
                InputEdges(input.mesh)[i]) \in {"convex", "planar"}
        THEN /\ kpc.m_has_kernel /\ kpc.m_input_is_convex
             /\ ~hist.list_built /\ kpc.m_cutting_planes = <<>>
             /\ ~hist.dispatched /\ worker = IdleWorker
             /\ ~hist.cube_built /\ hist.iterations = 0 /\ hist.cuts = 0
        ELSE ~kpc.m_input_is_convex /\ hist.list_built /\ hist.loop_entered

\* the call on the tetrahedron has returned
C4_Witness ==
    returned /\ kpc.m_input_is_convex /\ kpc.m_has_kernel /\ input.name = "Tetrahedron"

\* C5: whenever intersects_bounding_volume() returns false for the current
\* cutting plane, every corner of the bounding volume and every live vertex
\* of the candidate polyhedron classifies < 0 against that plane.
C5_CulledPlaneIsRedundant ==
    (/\ kpc.pc = "loop" /\ kpc.i < Len(kpc.m_cutting_planes)
     /\ input.options.use_bb_culling
     /\ ~intersects_bounding_volume(bv, kpc.m_cutting_planes[kpc.i + 1]))
      => /\ \A v \in LiveVertices(cand) :
                classify(cand.pos[v], kpc.m_cutting_planes[kpc.i + 1]) < 0
         /\ IF bv.k = 3
              THEN \A c \in BoxCorners(bv.aabb) :
                      classify_pos(c, kpc.m_cutting_planes[kpc.i + 1]) < 0
              ELSE \A j \in 1..Len(kdop_real_corners(bv, kpc.m_cutting_planes[kpc.i + 1])) :
                      classify(kdop_real_corners(bv, kpc.m_cutting_planes[kpc.i + 1])[j],
                               kpc.m_cutting_planes[kpc.i + 1]) < 0

\* the test is about to skip a plane after cuts have updated the bounding
\* volume
C5_Witness ==
    /\ kpc.pc = "loop" /\ kpc.i < Len(kpc.m_cutting_planes)
    /\ input.options.use_bb_culling
    /\ ~intersects_bounding_volume(bv, kpc.m_cutting_planes[kpc.i + 1])
    /\ hist.cuts > 1
    /\ bv # initialize_bounding_volume(init_supporting_structure(input.mesh.pos),
                                       input.options.kdop_k)

\* C6: in every interleaving the constructing thread fetches the worker's
\* result at most once per call, only when the worker has returned (the
\* readiness probe succeeded) and only before it has called stop(); a call
\* that reports lp_early_out has no kernel and took it from a worker that
\* returned infeasible without having been cancelled.
C6_FutureQueriedOnceBeforeStop ==
    /\ hist.gets <= 1
    /\ hist.blocking_gets = 0
    /\ ~hist.get_after_stop
    /\ kpc.lp_early_out =>
         /\ returned /\ ~kpc.m_has_kernel /\ hist.gets = 1 /\ hist.stop_calls = 0
         /\ worker.pc = "done" /\ worker.ret = "infeasible" /\ ~worker.cancelled

\* a call that returned early on the worker's answer
C6_Witness ==
    returned /\ kpc.lp_early_out /\ hist.gets = 1 /\ hist.iterations > 0

\* C7: whenever the call on a closed input ends with has_kernel() = true the
\* returned mesh is closed: every halfedge has a face, and so has its
\* opposite.
C7_ReturnedMeshClosed ==
    (returned /\ kpc.m_has_kernel /\ ~has_boundary_edge(input.mesh)) => is_closed_mesh(cand)

\* C8: a call that returns has_kernel() = false returns a mesh without
\* vertices and faces; a call that returns has_kernel() = true for an input
\* that was not short-circuited as convex returns a mesh with a vertex.
C8_MeshMatchesHasKernel ==
    returned =>
      /\ ~kpc.m_has_kernel => (LiveVertices(cand) = {} /\ LiveFaces(cand) = {})
      /\ (kpc.m_has_kernel /\ ~kpc.m_input_is_convex) => LiveVertices(cand) # {}

\* a call that found the kernel empty in the middle of the cuts
C8_Witness ==
    returned /\ ~kpc.m_has_kernel /\ ~kpc.lp_early_out /\ hist.cuts > 0

\* C10: on a mesh with a boundary edge compute_kernel builds no candidate
\* polyhedron, performs no cut and reports no kernel.
C10_OpenInputRefused ==
    has_boundary_edge(input.mesh)
      => (~hist.cube_built /\ hist.cuts = 0 /\ ~kpc.m_has_kernel)

\* Two planes denote the same oriented plane when their coefficient vectors
\* are equal up to a positive factor.
same_oriented_plane(p, q) ==
    /\ p.a * q.b = p.b * q.a /\ p.a * q.c = p.c * q.a /\ p.a * q.d = p.d * q.a
    /\ p.b * q.c = p.c * q.b /\ p.b * q.d = p.d * q.b /\ p.c * q.d = p.d * q.c
    /\ p.a * q.a + p.b * q.b + p.c * q.c + p.d * q.d > 0

\* C11: in both list modes the cutting-plane list holds no two entries that
\* denote the same oriented plane, whatever the input mesh.
C11_NoDuplicatePlane ==
    \A i, j \in 1..Len(kpc.m_cutting_planes) :
        i # j => ~same_oriented_plane(kpc.m_cutting_planes[i], kpc.m_cutting_planes[j])

\* the representative of an oriented plane up to positive scaling
plane_class(p) ==
    LET g == Gcd(Gcd(Gcd(Abs(p.a), Abs(p.b)), Abs(p.c)), Abs(p.d))
    IN  Plane(p.a \div g, p.b \div g, p.c \div g, p.d \div g)

PlaneClasses(L) == {plane_class(L[i]) : i \in 1..Len(L)}

\* the oriented supporting planes of the faces of m with a non-zero normal
face_plane_classes(m) ==
    {plane_class(compute_face_plane(m, f, FALSE)) :
        f \in {g \in 1..Len(m.faces) : compute_face_plane(m, g, FALSE) # ZeroPlane}}

\* the cutting-plane list and face-of-plane list compute_kernel builds for m
\* in the given mode
mode_list_from(planes, L) ==
    [m_face_of_plane |-> L.m_face_of_plane,
     m_cutting_planes |->
         AsSeq([i \in 1..Len(L.m_face_of_plane) |-> planes[L.m_face_of_plane[i]]])]

mode_list_with(m, uset, planes, oob_face) ==
    mode_list_from(planes,
                   IF uset THEN init_cutting_planes_uset(m, planes, init_edge_state(m, planes))
                   ELSE init_cutting_planes_flood_fill(m, planes, init_edge_state(m, planes),
                                                       oob_face))

mode_list(m, uset, oob_face) ==
    mode_list_with(m, uset, AsSeq(init_input_planes(m, uset)), oob_face)

\* has_kernel() of a sequential run of the cutting loop over the list L
RECURSIVE cuts_from(_, _, _, _, _)
cuts_next(r, use_bb_culling, L, i) ==
    IF r.res = "empty" THEN FALSE ELSE cuts_from(r.M, r.B, use_bb_culling, L, i + 1)

cuts_from(M, B, use_bb_culling, L, i) ==
    IF i > Len(L.m_cutting_planes) THEN LiveVertices(M) # {}
    ELSE cuts_next(cut_iteration(M, B, use_bb_culling, L.m_cutting_planes[i],
                                 L.m_face_of_plane[i]),
                   use_bb_culling, L, i)

cuts_of(M, o, L) ==
    cuts_from(M, IF o.use_bb_culling THEN initialize_bounding_volume(M, o.kdop_k) ELSE NoBv,
              o.use_bb_culling, L, 1)

has_kernel_in_mode(m, o, uset) ==
    cuts_of(init_supporting_structure(m.pos), o, mode_list(m, uset, 1))

ZeroNormalFaces(m) ==
    {f \in 1..Len(m.faces) :
        Cross(Sub3(m.pos[m.faces[f][2]], m.pos[m.faces[f][1]]),
              Sub3(m.pos[m.faces[f][3]], m.pos[m.faces[f][1]])) = <<0, 0, 0>>}

edges_of_zero_normal_faces_degenerate(zero_normal, E, states) ==
    \A i \in 1..Len(E) :
        ({E[i].faceA, E[i].faceB} \cap zero_normal # {}) => states[i] = "degenerate"

list_without_invalid_plane(zero_normal, planes, L) ==
    /\ \A f \in zero_normal : planes[f] = ZeroPlane
    /\ \A i \in 1..Len(L.m_cutting_planes) : plane_is_valid(L.m_cutting_planes[i])
    /\ zero_normal \cap {L.m_face_of_plane[i] : i \in 1..Len(L.m_face_of_plane)} = {}

lists_without_invalid_plane(m) ==
    \A uset \in BOOLEAN :
        list_without_invalid_plane(ZeroNormalFaces(m), AsSeq(init_input_planes(m, uset)),
                                   mode_list(m, uset, 1))

C14_VerticesFinite ==
    \A v \in LiveVertices(cand) : point_is_valid(cand.pos[v])

\* a candidate that kept a vertex created by splitting a halfedge
C14_Witness ==
    /\ hist.cuts > 0
    /\ \E v \in LiveVertices(cand) : v > 8 /\ cand.pos[v].w \notin {0, 1}

\* C15: whenever compute_kernel returns after having dispatched the worker,
\* stop() has been called on the solver and the call has not waited for the
\* worker's result.
C15_CancelledBeforeReturn ==
    (returned /\ hist.dispatched) => (hist.stop_calls >= 1 /\ hist.blocking_gets = 0)

\* C16: when the vertices on the cutting plane are exactly the vertices of
\* one face of the candidate and no vertex lies in front of the plane,
\* processing the plane leaves the candidate mesh as it was: no halfedge or
\* face split, no vertex deleted, no face added.
C16_CoplanarCutKeepsMesh ==
    (hist.last.on_face /\ hist.last.pos = {} /\ Cardinality(hist.last.zero) >= 3)
      => (hist.last.same /\ hist.last.identical /\ ~hist.last.proper_cut)

\* a plane through all corners of a face of a solid candidate, processed by
\* marching
C16_Witness ==
    /\ hist.last.on_face /\ hist.last.pos = {} /\ Cardinality(hist.last.zero) >= 3
    /\ hist.last.res = "cut" /\ hist.last.exit # "none"
    /\ Cardinality(LiveFaces(cand)) >= 4

\* C17: when the cutting plane passes through exactly one vertex of the
\* candidate and no vertex lies in front of it, marching ends with that
\* vertex as the only c0 vertex, nothing is deleted, no face is added and the
\* candidate mesh is unchanged.
C17_GrazingCutKeepsMesh ==
    (Cardinality(hist.last.zero) = 1 /\ hist.last.pos = {} /\ hist.last.exit # "none")
      => /\ hist.last.exit # "unfinished"
         /\ hist.last.c0 \in hist.last.zero
         /\ {hist.last.c0v[k] : k \in 1..Len(hist.last.c0v)} \subseteq hist.last.zero
         /\ ~hist.last.proper_cut
         /\ hist.last.same /\ hist.last.identical

\* a plane that touches a solid candidate in one corner, processed by
\* marching
C17_Witness ==
    /\ Cardinality(hist.last.zero) = 1 /\ hist.last.pos = {} /\ hist.last.exit # "none"
    /\ hist.last.res = "cut"
    /\ Cardinality(LiveFaces(cand)) >= 4

\* C18: once stop() has been called on the solver of a dispatched worker, the
\* worker starts no further iteration of the 3D plane loop: its next step at
\* the top of the loop, with planes left, is the cancelled return.
C18_StopObserved ==
    [][(hist.stop_calls > 0 /\ worker.pc = "loop" /\ worker.pi < Len(solver.m_planes)
          /\ worker' # worker)
         => worker'.cancelled]_vars

\* C20: whenever marching was entered for a plane it terminated, and it
\* either closed the walk at the first c0 vertex or the plane had no live
\* vertex of the candidate in front of it.
C20_MarchingClosesOrGrazes ==
    hist.last.exit # "none"
      => /\ hist.last.exit # "unfinished"
         /\ (hist.last.exit = "closed" \/ hist.last.pos = {})

\* C19: across repeated calls on one object no worker copies the
\* cutting-plane list after a later call has begun to clear and rebuild it,
\* and no two workers are on the solver at the same time.
C19_WorkersIsolated ==
    /\ ~(worker.pc = "set_planes" /\ worker.call < hist.calls /\ kpc.pc # "start")
    /\ worker.pc # "racing"

\* the projection of vertex v onto axis i lies in the interval the bounding
\* volume B stores for that axis
within_axis(B, M, i, v) ==
    IF B.k = 3
      THEN /\ B.aabb.min[i] * M.dpos[v][4] <= M.dpos[v][i]
           /\ M.dpos[v][i] <= B.aabb.max[i] * M.dpos[v][4]
    ELSE /\ ~frac_less(get_distance(M, KdopAxes[i], v), B.distance_min[i])
         /\ ~frac_less(B.distance_max[i], get_distance(M, KdopAxes[i], v))

\* C21: for every K, from initialize_from_positions on and after every
\* update, the interval stored for each of the K axes contains the
\* projection of every live vertex of the candidate.
C21_BoundsContainCandidate ==
    (bv.k # 0 /\ hist.cube_built)
      => \A i \in 1..bv.k : \A v \in LiveVertices(cand) : within_axis(bv, cand, i, v)

\* the input faces with a valid plane that are incident to a concave, boundary
\* or degenerate edge
faces_at_concave_edges(planes, E, states) ==
    {f \in 1..Len(planes) : plane_is_valid(planes[f]) /\ has_concave_edge(E, states, f)}

\* every list entry that supports a face of the set concave lies in the prefix
\* [0, num_concave), and every entry of the prefix supports such a face
concave_planes_first(L, num_concave, planes, concave) ==
    /\ num_concave \in 0..Len(L)
    /\ \A i \in 1..Len(L) :
           (\E f \in concave : same_oriented_plane(L[i], planes[f])) <=> i <= num_concave

\* C22: in both list modes the planes that support a face incident to a
\* concave, boundary or degenerate edge are exactly the first
\* m_number_concave_planes entries of the cutting-plane list.
C22_ConcavePlanesFirst ==
    hist.list_built
      => concave_planes_first(
             kpc.m_cutting_planes, kpc.m_number_concave_planes,
             AsSeq(init_input_planes(input.mesh, input.options.use_unordered_set)),
             faces_at_concave_edges(
                 AsSeq(init_input_planes(input.mesh, input.options.use_unordered_set)),
                 InputEdges(input.mesh),
                 init_edge_state(input.mesh,
                     AsSeq(init_input_planes(input.mesh, input.options.use_unordered_set)))))

\* C23: when edge_descent returns no halfedge, a start vertex on or in front
\* of the plane ends the cutting with has_kernel() = false, and a start
\* vertex behind the plane means that every live vertex is behind it and the
\* plane is skipped with mesh, attributes and bounding volume unchanged.
C23_NoCrossing ==
    (hist.iterations > 0 /\ hist.last.no_crossing)
      => /\ hist.last.v0_class >= 0 => (returned /\ ~kpc.m_has_kernel)
         /\ hist.last.v0_class < 0
              => /\ hist.last.zero = {} /\ hist.last.pos = {}
                 /\ hist.last.res = "inside"
                 /\ hist.last.identical /\ hist.last.bv_same

\* C23 as the code has it: only a start vertex strictly in front of the plane
\* ends the cutting with has_kernel() = false; a start vertex on the plane
\* without any halfedge is kept, nothing is deleted and the loop goes on.
C23_NoCrossingStrict ==
    (hist.iterations > 0 /\ hist.last.no_crossing)
      => /\ hist.last.v0_class > 0 => (returned /\ ~kpc.m_has_kernel)
         /\ hist.last.v0_class = 0
              => /\ hist.last.res = "cut" /\ ~hist.last.proper_cut
                 /\ hist.last.pos = {}
                 /\ hist.last.identical /\ hist.last.bv_same
                 /\ (returned => kpc.m_has_kernel)
         /\ hist.last.v0_class < 0
              => /\ hist.last.zero = {} /\ hist.last.pos = {}
                 /\ hist.last.res = "inside"
                 /\ hist.last.identical /\ hist.last.bv_same

\* a closed candidate with faces that lay wholly in front of the plane: the
\* descent found no crossing and the call returned
C23_Witness ==
    /\ returned /\ hist.last.no_crossing /\ hist.last.v0_class > 0
    /\ hist.last.closed /\ hist.last.res = "empty"

\* C24: delete_c1_vertices removes only vertices in front of the cutting
\* plane (its assertion never fails), never a vertex on the plane, and leaves
\* no live vertex in front of the plane.
C24_DeletesExactlyFront ==
    (hist.iterations > 0 /\ hist.last.res = "cut")
      => /\ ~hist.last.c1_assert
         /\ hist.last.removed \subseteq hist.last.pos
         /\ hist.last.removed \cap hist.last.zero = {}
         /\ hist.last.pos_left = {}

\* a cut of a closed candidate that removed vertices and kept the ones that
\* lay on the plane
C24_Witness ==
    /\ hist.last.res = "cut" /\ hist.last.proper_cut /\ hist.last.closed
    /\ hist.last.removed # {} /\ hist.last.zero # {}
    /\ hist.last.removed = hist.last.pos

\* C25: when marching has run and recorded at least three c0 vertices, the
\* list holds every vertex on the cutting plane exactly once, consecutive
\* entries (and the last with the first) are joined by an edge, and after a
\* proper cut the one face filled at the halfedge between the first two
\* entries leaves the mesh without boundary.
C25_CutLoopRecorded ==
    (hist.iterations > 0 /\ hist.last.res = "cut" /\ hist.last.exit # "none"
       /\ Len(hist.last.c0v) >= 3)
      => /\ \A i, j \in 1..Len(hist.last.c0v) :
                i # j => hist.last.c0v[i] # hist.last.c0v[j]
         /\ {hist.last.c0v[i] : i \in 1..Len(hist.last.c0v)} = hist.last.zero_left
         /\ hist.last.c0_joined
         /\ hist.last.proper_cut
              => (~hist.last.fill_fault /\ hist.last.filled /\ hist.last.closed_left)


\* the homogeneous point pt lies on the line l
on_line(pt, l) ==
    /\ l.ab_ba * pt.y - l.ca_ac * pt.z + l.ad_da * pt.w = 0
    /\ l.bc_cb * pt.z - l.ab_ba * pt.x + l.bd_db * pt.w = 0
    /\ l.ca_ac * pt.x - l.bc_cb * pt.y + l.cd_dc * pt.w = 0
    /\ l.ad_da * pt.x + l.bd_db * pt.y + l.cd_dc * pt.z = 0

line_coordinates(l) == <<l.ab_ba, l.bc_cb, l.ca_ac, l.ad_da, l.bd_db, l.cd_dc>>

\* l and k denote the same line: their coordinates are proportional
same_line(l, k) ==
    /\ line_is_valid(l) /\ line_is_valid(k)
    /\ \A i, j \in 1..6 :
           line_coordinates(l)[i] * line_coordinates(k)[j]
             = line_coordinates(l)[j] * line_coordinates(k)[i]

\* face f of M has a valid supporting plane through all its vertices
face_supported(M, f) ==
    /\ plane_is_valid(M.splane[f])
    /\ \A i \in 1..Len(face_vertices(M, f)) :
           classify(M.pos[face_vertices(M, f)[i]], M.splane[f]) = 0

\* the edge of halfedge h has a valid line through both its end points
edge_on_line(M, h) ==
    /\ line_is_valid(M.line[edge_of(h)])
    /\ on_line(M.pos[vertex_from(M, h)], M.line[edge_of(h)])
    /\ on_line(M.pos[vertex_to(M, h)], M.line[edge_of(h)])

\* the line of the edge of h is the intersection of the supporting planes of
\* the faces on its two sides
edge_line_of_faces(M, h) ==
    /\ M.hface[h] # 0 /\ M.hface[opposite(h)] # 0
    /\ same_line(M.line[edge_of(h)],
                 intersect_pp(M.splane[M.hface[h]], M.splane[M.hface[opposite(h)]]))

\* C26: from the cuboid on and after any sequence of cuts every face of the
\* candidate has a valid supporting plane on which all its vertices lie, and
\* every edge has a valid line through both its end points that is the
\* intersection of the supporting planes of its two faces.
C26_SupportingPlanesAndLines ==
    (hist.cube_built /\ kpc.pc = "loop")
      => /\ \A f \in LiveFaces(cand) : face_supported(cand, f)
         /\ \A h \in LiveHalfedges(cand) : edge_on_line(cand, h) /\ edge_line_of_faces(cand, h)

\* the plane indices of sol are filled from the first on, each is -1 or an index
\* below n, and the geometry of the kind of sol is valid and is the plane, the
\* line of the planes or the point of the planes named by the indices
solution_well_formed(sol, mp, n) ==
    /\ sol.plane_idx_0 \in -1..(n - 1)
    /\ sol.plane_idx_1 \in -1..(n - 1)
    /\ sol.plane_idx_2 \in -1..(n - 1)
    /\ sol.plane_idx_0 = -1 => sol.plane_idx_1 = -1
    /\ sol.plane_idx_1 = -1 => sol.plane_idx_2 = -1
    /\ Cardinality({k \in {"space", "plane", "line", "point"} :
                      \/ k = "space" /\ is_space(sol)
                      \/ k = "plane" /\ is_plane(sol)
                      \/ k = "line" /\ is_line(sol)
                      \/ k = "point" /\ is_point(sol)}) = 1
    /\ sol.plane_idx_0 >= 0 => (plane_is_valid(sol.plane) /\ sol.plane = mp[sol.plane_idx_0 + 1])
    /\ sol.plane_idx_1 >= 0 =>
          same_line(sol.line, intersect_pp(mp[sol.plane_idx_0 + 1], mp[sol.plane_idx_1 + 1]))
    /\ sol.plane_idx_2 >= 0 =>
          /\ point_is_valid(sol.position)
          /\ \A i \in {sol.plane_idx_0, sol.plane_idx_1, sol.plane_idx_2} :
                 classify(sol.position, mp[i + 1]) = 0

\* every point of the solution set of sol classifies <= 0 against plane: a point
\* does itself; a line or a plane has to be parallel to plane and have one point
\* of its own that does; the whole space never does
solution_within(sol, plane) ==
    IF is_point(sol) THEN classify(sol.position, plane) <= 0
    ELSE IF is_line(sol) THEN
        /\ sol.line.bc_cb * plane.a + sol.line.ca_ac * plane.b + sol.line.ab_ba * plane.c = 0
        /\ on_line(any_point_line(sol.line), sol.line)
        /\ classify(any_point_line(sol.line), plane) <= 0
    ELSE IF is_plane(sol) THEN
        /\ Cross(<<sol.plane.a, sol.plane.b, sol.plane.c>>, <<plane.a, plane.b, plane.c>>) = <<0, 0, 0>>
        /\ classify(any_point_plane(sol.plane), sol.plane) = 0
        /\ classify(any_point_plane(sol.plane), plane) <= 0
    ELSE FALSE

\* every point of the solution set of sol lies on plane
solution_on(sol, plane) ==
    /\ solution_within(sol, plane)
    /\ solution_within(sol, Plane(-plane.a, -plane.b, -plane.c, -plane.d))

\* C27: at the end of every iteration of the 3D plane loop, and of the 2D loop
\* within its sub-problem, the solution structure is exactly one of whole space,
\* plane, line or point with its plane indices filled in order, and every point
\* of the solution set classifies <= 0 against all planes processed so far in
\* that loop (in the 2D loop it also lies on the fixed plane).
C27_SolutionStructure ==
    /\ (worker.pc = "loop" \/ (worker.pc = "done" /\ worker.ret = "has_solution"))
         => /\ solution_well_formed(solver.m_solution, solver.m_planes, worker.pi)
            /\ \A i \in 1..worker.pi : solution_within(solver.m_solution, solver.m_planes[i])
    /\ (worker.pc \in {"loop", "done"} /\ hist.sub2d.ran)
         => \A j \in 1..Len(hist.sub2d.trace) :
               /\ solution_well_formed(hist.sub2d.trace[j], solver.m_planes, hist.sub2d.fixed + 1)
               /\ hist.sub2d.trace[j].plane_idx_0 = hist.sub2d.fixed
               /\ solution_on(hist.sub2d.trace[j], solver.m_planes[hist.sub2d.fixed + 1])
               /\ \A i \in 1..j : solution_within(hist.sub2d.trace[j], solver.m_planes[i])

\* a 3D iteration ended after a 2D sub-problem whose loop went from the fixed
\* plane through a line to a point, and the 3D loop went on with that point
C27_Witness ==
    /\ worker.pc = "loop"
    /\ hist.sub2d.ran
    /\ Len(hist.sub2d.trace) >= 3
    /\ \E j \in 1..Len(hist.sub2d.trace) : is_line(hist.sub2d.trace[j])
    /\ is_point(hist.sub2d.trace[Len(hist.sub2d.trace)])
    /\ is_point(solver.m_solution)
    /\ solver.m_solution.plane_idx_0 = worker.pi - 1

(***************************************************************************)
(* The K = 3 bounding volume on its own: the cuboid of an input bounding   *)
(* box whose corners are drawn from the ends and the middle of the declared*)
(* coordinate range, then cuts that take away one side of the cuboid and   *)
(* put the cut vertices at the middle of the edges that cross the plane    *)
(***************************************************************************)
\* ipg::geometry<26, 55>::bits_position
BitsPosition == 26

\* the most cuts made on one cuboid
MaxBoxCuts == 3

BoxLow == {-(2^BitsPosition), -5}

BoxHigh == {5, 2^BitsPosition - AabbSlack, 2^BitsPosition}

InputBoxes ==
    {[min |-> lo, max |-> hi] : lo \in [1..3 -> BoxLow], hi \in [1..3 -> BoxHigh]}

\* the cuboid of init_with_aabb, reduced to what the bounding volume reads
box_candidate(box) ==
    [vout |-> [v \in 1..8 |-> 1],
     dpos |-> [v \in 1..8 |-> <<cube_positions(box)[v][1], cube_positions(box)[v][2],
                                cube_positions(box)[v][3], 1>>]]

box_live(M) == {v \in 1..Len(M.vout) : ~is_removed(M, v)}

\* the largest denominator of a live vertex (the denominators are powers of two)
box_denominator(M) ==
    CHOOSE L \in {M.dpos[v][4] : v \in box_live(M)} : \A v \in box_live(M) : M.dpos[v][4] <= L

\* coordinate d of vertex v over the denominator L
box_coordinate(M, v, d, L) == M.dpos[v][d] * (L \div M.dpos[v][4])

\* the live vertices with the smallest (side = -1) or largest (side = 1)
\* coordinate d
box_side(M, d, side) ==
    LET L == box_denominator(M)
        x == [v \in box_live(M) |-> side * box_coordinate(M, v, d, L)]
    IN  {v \in box_live(M) : \A u \in box_live(M) : x[v] >= x[u]}

\* the live vertex at the other end of the edge of u along axis d
box_across(M, d, u) ==
    LET L == box_denominator(M)
    IN  CHOOSE p \in box_live(M) :
            /\ box_coordinate(M, p, d, L) # box_coordinate(M, u, d, L)
            /\ \A e \in (1..3) \ {d} : box_coordinate(M, p, e, L) = box_coordinate(M, u, e, L)

\* the elements of a set of vertices in increasing order
box_ordered(S) == [i \in 1..Cardinality(S) |-> CHOOSE v \in S : Cardinality({u \in S : u < v}) = i - 1]

\* the middle of the edge from u to p, over the denominator 2 * max(w_u, w_p)
box_middle(M, u, p) ==
    LET L == Max2(M.dpos[u][4], M.dpos[p][4])
    IN  << box_coordinate(M, u, 1, L) + box_coordinate(M, p, 1, L),
           box_coordinate(M, u, 2, L) + box_coordinate(M, p, 2, L),
           box_coordinate(M, u, 3, L) + box_coordinate(M, p, 3, L),
           2 * L >>

\* a cut that removes the side of the cuboid: the vertices of the side are
\* flagged removed and one cut vertex per crossing edge is appended
box_cut_mesh(M, d, side) ==
    LET gone == box_ordered(box_side(M, d, side))
        across == [i \in 1..Len(gone) |-> box_across(M, d, gone[i])]
    IN  [vout |-> [v \in 1..Len(M.vout) |-> IF \E i \in 1..Len(gone) : gone[i] = v THEN -1 ELSE M.vout[v]]
                    \o [i \in 1..Len(gone) |-> 1],
         dpos |-> M.dpos \o [i \in 1..Len(gone) |-> box_middle(M, gone[i], across[i])]]

InitBox ==
    /\ input \in {[kind |-> "box", box |-> b] : b \in InputBoxes}
    /\ kpc = [pc |-> "box_init"]
    /\ cand = NoCand
    /\ bv = NoBv
    /\ solver = FreshSolver(FALSE)
    /\ worker = IdleWorker
    /\ hist = NoHist

\* initialize_bounding_volume on the cuboid of the input's bounding box
box_initialize ==
    /\ kpc.pc = "box_init"
    /\ cand' = box_candidate(input.box)
    /\ bv' = initialize_3dop(cand')
    /\ kpc' = [pc |-> "box_loop"]
    /\ UNCHANGED <<input, solver, worker, hist>>

\* one cut of the candidate followed by update_bounding_volume with the cut
\* vertices
box_cut ==
    /\ kpc.pc = "box_loop"
    /\ hist.cuts < MaxBoxCuts
    /\ \E d \in 1..3, side \in {-1, 1} :
         /\ cand' = box_cut_mesh(cand, d, side)
         /\ bv' = update_3dop(bv, cand', [i \in 1..4 |-> Len(cand.vout) + i])
    /\ hist' = [hist EXCEPT !.cuts = @ + 1]
    /\ UNCHANGED <<input, kpc, solver, worker>>

NextBox ==
    \/ box_initialize
    \/ box_cut

SpecBox == InitBox /\ [][NextBox]_vars

\* C28: for every input within the declared coordinate bound the padded bounds
\* of the K = 3 bounding volume stay within [-2^B_POS, 2^B_POS] at
\* initialization and after every update (the range assertions of k_dop<3, int>
\* and of classify(AABB, plane) hold).
C28_BoundsInRange ==
    (bv.k = 3 /\ input.kind = "box")
      => \A d \in 1..3 : /\ Abs(bv.aabb.min[d]) <= 2^BitsPosition
                         /\ Abs(bv.aabb.max[d]) <= 2^BitsPosition

\* C29: what is observable after compute_kernel returns depends only on the
\* arguments of that call: after a call that found the input convex mesh() is
\* what it is on a fresh object, the empty mesh, and after any other call
\* has_kernel() is the value a sequential run on a fresh object gives.
C29_CallIndependent ==
    (returned /\ input.kind = "mesh")
      => IF kpc.m_input_is_convex
           THEN kpc.m_has_kernel /\ cand = EmptyMesh
           ELSE kpc.m_has_kernel
                  = has_kernel_in_mode(input.mesh, input.options, input.options.use_unordered_set)

(***************************************************************************)
(* The intersection routines on their own: p ranges over all planes with   *)
(* coefficients of magnitude at most MaxCoefficient, q and r over the menu *)
(* of planes.  The three-plane point, the line of p and q and the point of *)
(* that line with r are computed one after the other and kept in cand.     *)
(***************************************************************************)
\* ipg::geometry<26, 55>::bits_normal
BitsNormal == 55

BitsPlaneD == BitsPosition + BitsNormal + 2

BitsDeterminantAbc == 3 * BitsNormal + 3

BitsDeterminantXxd == 2 * BitsNormal + BitsPlaneD + 3

\* fixed_int<bits>: 32 bits, or the next multiple of 64
WordBits(bits) == IF bits <= 32 THEN 32 ELSE ((bits + 63) \div 64) * 64

\* the largest magnitude of a coefficient of p
MaxCoefficient == 1

SmallPlanes ==
    {pl \in [a : -MaxCoefficient..MaxCoefficient, b : -MaxCoefficient..MaxCoefficient,
             c : -MaxCoefficient..MaxCoefficient, d : -MaxCoefficient..MaxCoefficient] :
        plane_is_valid(pl)}

InitIntersect ==
    /\ input \in {[kind |-> "planes3", p |-> p, q |-> PlaneMenu[i], r |-> PlaneMenu[j]] :
                    p \in SmallPlanes, i \in 1..Len(PlaneMenu), j \in 1..Len(PlaneMenu)}
    /\ kpc = [pc |-> "intersect"]
    /\ cand = [point |-> ZeroPoint, line |-> ZeroLine, via_line |-> ZeroPoint]
    /\ bv = NoBv
    /\ solver = FreshSolver(FALSE)
    /\ worker = IdleWorker
    /\ hist = NoHist

\* intersect(p, q, r)
intersect_three ==
    /\ kpc.pc = "intersect"
    /\ cand' = [cand EXCEPT !.point = intersect_ppp(input.p, input.q, input.r)]
    /\ kpc' = [pc |-> "line"]
    /\ UNCHANGED <<input, bv, solver, worker, hist>>

\* intersect(p, q)
intersect_two ==
    /\ kpc.pc = "line"
    /\ cand' = [cand EXCEPT !.line = intersect_pp(input.p, input.q)]
    /\ kpc' = [pc |-> "line_plane"]
    /\ UNCHANGED <<input, bv, solver, worker, hist>>

\* intersect(intersect(p, q), r)
intersect_line_plane ==
    /\ kpc.pc = "line_plane"
    /\ cand' = [cand EXCEPT !.via_line = intersect_lp(cand.line, input.r)]
    /\ kpc' = [pc |-> "intersected"]
    /\ UNCHANGED <<input, bv, solver, worker, hist>>

NextIntersect ==
    \/ intersect_three
    \/ intersect_two
    \/ intersect_line_plane

SpecIntersect == InitIntersect /\ [][NextIntersect]_vars

\* the normals of p, q and r are linearly dependent: some combination with
\* integer factors, not all zero, vanishes (for normals of these sizes the
\* factors are 2x2 minors, of magnitude at most 2 * MaxCoefficient)
linearly_dependent(p, q, r) ==
    \E f \in [1..3 -> -(2 * MaxCoefficient)..(2 * MaxCoefficient)] :
        /\ f # [i \in 1..3 |-> 0]
        /\ f[1] * p.a + f[2] * q.a + f[3] * r.a = 0
        /\ f[1] * p.b + f[2] * q.b + f[3] * r.b = 0
        /\ f[1] * p.c + f[2] * q.c + f[3] * r.c = 0

\* two homogeneous points denote the same Euclidean point
same_point(s, t) ==
    /\ s.w # 0 /\ t.w # 0
    /\ s.x * t.w = t.x * s.w
    /\ s.y * t.w = t.y * s.w
    /\ s.z * t.w = t.z * s.w

\* for coefficients at the declared bounds every intermediate of intersect and
\* classify fits the signed type it is computed in: the 2x2 determinants of two
\* normals, those with a d, the determinant of three normals, the numerators
\* and the sum of classify
widths_suffice ==
    /\ 2 * BitsNormal + 1 <= WordBits(2 * BitsNormal) - 2
    /\ BitsNormal + BitsPlaneD + 1 <= WordBits(BitsNormal + BitsPlaneD) - 2
    /\ BitsDeterminantAbc <= WordBits(BitsDeterminantAbc) - 1
    /\ (2 * BitsNormal + 1) + BitsPlaneD + 2 <= WordBits(BitsDeterminantXxd) - 1
    /\ (BitsDeterminantXxd + BitsNormal) + 2 <= WordBits(2 + BitsDeterminantXxd + BitsNormal) - 1

\* C30: intersect(p, q, r) yields W = 0 exactly when the three normals are
\* linearly dependent; otherwise the point classifies 0 against each of p, q
\* and r, and intersecting the line intersect(p, q) with r denotes the same
\* Euclidean point.  At the declared coefficient bounds no intermediate
\* overflows its type.
C30_IntersectThreePlanes ==
    (input.kind = "planes3" /\ kpc.pc = "intersected")
      => /\ (cand.point.w = 0) <=> linearly_dependent(input.p, input.q, input.r)
         /\ cand.point.w # 0
              => /\ classify(cand.point, input.p) = 0
                 /\ classify(cand.point, input.q) = 0
                 /\ classify(cand.point, input.r) = 0
                 /\ same_point(cand.point, cand.via_line)
         /\ widths_suffice

\* three planes in general position whose point is not the origin and has a
\* denominator other than 1 and -1
C30_Witness ==
    /\ input.kind = "planes3" /\ kpc.pc = "intersected"
    /\ Abs(cand.point.w) > 1
    /\ cand.point.x # 0 /\ cand.point.y # 0 /\ cand.point.z # 0
    /\ same_point(cand.point, cand.via_line)

====
